---- MODULE Spec2Model ----
(***************************************************************************)
(* Model of the WhatsApp -> n8n bridge (Example/n8n-bridge.ts, reproduced   *)
(* in DEPLOYMENT.md) and of the Supabase auth state                         *)
(* (Example/use-supabase-auth-state.ts).                                    *)
(*                                                                          *)
(* Conventions                                                              *)
(*   - a JS string is a sequence of one-character strings; Undef is the     *)
(*     JS undefined/null of a string-valued field;                          *)
(*   - a JID is a record [user, device, server]; NoJid is undefined/null;   *)
(*   - a Map is a TLA+ function whose DOMAIN is the set of keys.            *)
(***************************************************************************)
EXTENDS Integers, Sequences, FiniteSets, TLC

(* ------------------------------------------------------------------ *)
(* Values                                                             *)
(* ------------------------------------------------------------------ *)

\* undefined / null for string-valued fields (not a string of characters)
Undef == <<"undefined">>

\* JS truthiness of an optional string: undefined, null and '' are falsy
Truthy(s) == s # Undef /\ s # <<>>

NoJid == [user |-> "", device |-> 0, server |-> ""]

Jid(u, d, s) == [user |-> u, device |-> d, server |-> s]

\* the bridge's own account as the socket reports it (with a device suffix),
\* and as other clients mention it (without)
BotDeviceJid == Jid("bot", 1, "s.whatsapp.net")
BotJid       == Jid("bot", 0, "s.whatsapp.net")
AliceJid     == Jid("alice", 0, "s.whatsapp.net")
CarolJid     == Jid("carol", 0, "s.whatsapp.net")
GroupJid     == Jid("team", 0, "g.us")
NewsJid      == Jid("news", 0, "newsletter")

\* chatJid.endsWith('@g.us')
isGroupJid(jid) == jid.server = "g.us"

isJidNewsletter(jid) == jid.server = "newsletter"

\* strips the device part and maps the legacy server name
jidNormalizedUser(jid) ==
    [user   |-> jid.user,
     device |-> 0,
     server |-> IF jid.server = "c.us" THEN "s.whatsapp.net" ELSE jid.server]

(* ------------------------------------------------------------------ *)
(* Messages (proto.IMessage)                                          *)
(* ------------------------------------------------------------------ *)

\* one content variant (extendedTextMessage, imageMessage, ...):
\*   present      the variant exists on the message
\*   text         its text / caption
\*   hasMentions  contextInfo.mentionedJid exists (an array, possibly empty)
\*   mentionedJid the array
NoVariant == [present |-> FALSE, text |-> Undef, hasMentions |-> FALSE, mentionedJid |-> <<>>]

Variant(t, has, ms) == [present |-> TRUE, text |-> t, hasMentions |-> has, mentionedJid |-> ms]

\* m.message undefined / null
NoMessage ==
    [present |-> FALSE, conversation |-> Undef,
     extendedTextMessage |-> NoVariant, imageMessage |-> NoVariant,
     videoMessage |-> NoVariant, documentMessage |-> NoVariant]

Message(c, e, i, v, d) ==
    [present |-> TRUE, conversation |-> c,
     extendedTextMessage |-> e, imageMessage |-> i,
     videoMessage |-> v, documentMessage |-> d]

Hi == <<"h", "i">>

\* an extendedTextMessage "hi" that mentions ms
Ext(ms) == Message(Undef, Variant(Hi, TRUE, ms), NoVariant, NoVariant, NoVariant)

\* msg.<variant>?.text : undefined when the variant is missing
VariantText(v) == IF v.present THEN v.text ELSE Undef

\* msg.<variant>?.contextInfo?.mentionedJid is truthy (any array is)
VariantHasMentions(v) == v.present /\ v.hasMentions

extractText(msg) ==
    IF ~msg.present THEN Undef
    ELSE IF Truthy(msg.conversation) THEN msg.conversation
    ELSE IF Truthy(VariantText(msg.extendedTextMessage)) THEN msg.extendedTextMessage.text
    ELSE IF Truthy(VariantText(msg.imageMessage)) THEN msg.imageMessage.text
    ELSE IF Truthy(VariantText(msg.videoMessage)) THEN msg.videoMessage.text
    ELSE IF Truthy(VariantText(msg.documentMessage)) THEN msg.documentMessage.text
    ELSE Undef

\* the || chain of isMentioningMe: the first variant that carries an array
mentionedOf(msg) ==
    IF VariantHasMentions(msg.extendedTextMessage) THEN msg.extendedTextMessage.mentionedJid
    ELSE IF VariantHasMentions(msg.imageMessage) THEN msg.imageMessage.mentionedJid
    ELSE IF VariantHasMentions(msg.videoMessage) THEN msg.videoMessage.mentionedJid
    ELSE IF VariantHasMentions(msg.documentMessage) THEN msg.documentMessage.mentionedJid
    ELSE <<>>

NormalizedAll(s) == [i \in 1..Len(s) |-> jidNormalizedUser(s[i])]

Includes(s, x) == \E i \in 1..Len(s) : s[i] = x

\* mutant: the own JID is compared as reported, device suffix included
isMentioningMe_rawSelf(msg, myJid) ==
    IF ~msg.present \/ myJid = NoJid THEN FALSE
    ELSE Includes(NormalizedAll(mentionedOf(msg)), myJid)

isMentioningMe(msg, myJid) ==
    IF ~msg.present \/ myJid = NoJid THEN FALSE
    ELSE Includes(NormalizedAll(mentionedOf(msg)), jidNormalizedUser(myJid))

(* ------------------------------------------------------------------ *)
(* Runtime configuration                                              *)
(* ------------------------------------------------------------------ *)

\* contacts.get(jid) / groups.get(jid) on a missing key
NoRow == [jid |-> NoJid, type |-> "", name |-> "", rule |-> ""]

Row(j, t, r) == [jid |-> j, type |-> t, name |-> "n", rule |-> r]

MapGet(map, key) == IF key \in DOMAIN map THEN map[key] ELSE NoRow

\* override?.rule && override.rule !== 'default' ? override.rule : undefined
\* ('' stands for undefined: both are falsy)
overrideRuleOf(row) == IF row.rule # "" /\ row.rule # "default" THEN row.rule ELSE ""

\* mutant: the per-group override is ignored
resolveFinalGroupRule_noOverride(cfg, chatJid, msg, myJid) ==
    LET finalRule == cfg.settings.groups_default_rule
    IN  IF finalRule = "disabled" THEN FALSE
        ELSE IF finalRule = "enabled" THEN TRUE
        ELSE IF finalRule = "mentionOnly" THEN isMentioningMe(msg, myJid)
        ELSE FALSE

resolveFinalGroupRule(cfg, chatJid, msg, myJid) ==
    LET override     == MapGet(cfg.entityRules.groups, chatJid)
        overrideRule == overrideRuleOf(override)
        base         == cfg.settings.groups_default_rule
        finalRule    == IF overrideRule # "" THEN overrideRule ELSE base
    IN  IF finalRule = "disabled" THEN FALSE
        ELSE IF finalRule = "enabled" THEN TRUE
        ELSE IF finalRule = "mentionOnly" THEN isMentioningMe(msg, myJid)
        ELSE FALSE

\* mutant: allowlist mode automates every contact that is not disabled
shouldAutomate_laxAllowlist(cfg, chatJid, isGroup, msg, myJid) ==
    IF isGroup THEN resolveFinalGroupRule(cfg, chatJid, msg, myJid)
    ELSE LET ruleRow  == MapGet(cfg.entityRules.contacts, chatJid)
             override == IF overrideRuleOf(ruleRow) # "" THEN ruleRow.rule ELSE "default"
         IN  override # "disabled"

shouldAutomate(cfg, chatJid, isGroup, msg, myJid) ==
    IF isGroup THEN resolveFinalGroupRule(cfg, chatJid, msg, myJid)
    ELSE LET ruleRow  == MapGet(cfg.entityRules.contacts, chatJid)
             override == IF overrideRuleOf(ruleRow) # "" THEN ruleRow.rule ELSE "default"
         IN  IF cfg.settings.contacts_mode = "allowlist" THEN override = "enabled"
             ELSE IF override = "disabled" THEN FALSE
             ELSE TRUE

(* ------------------------------------------------------------------ *)
(* State                                                              *)
(* ------------------------------------------------------------------ *)

VARIABLES
    decideArgs,     \* arguments of one shouldAutomate() call
    decideResult,   \* its result, once taken
    db_settings,    \* datastore: the app_settings row
    db_rules,       \* datastore: the entity_rules view, jid -> row
    runtimeCache,   \* the process-wide config cache [cfg, loadedAt]
    now,            \* Date.now(), in ms since the process started
    authStore,      \* persisted credentials: [registered]
    socks,          \* one record per start() call: the session and its handler
    timers,         \* pending setTimeout(start, 1500) callbacks
    logs,           \* every insertLog() call, with whether the insert succeeded
    calls,          \* every callN8n() call
    sends,          \* every sock.sendMessage() call
    closes,         \* every handled connection.update close: [sock, code]
    decided,        \* every message that got past the config: [m, settings, automated]
    env,            \* process environment: [PAIRING_PHONE_NUMBER]
    stats,          \* counts: messages delivered, pairing codes requested
    faults,         \* datastore / transport failures injected so far
    keyStore,       \* datastore: the rows of wa_auth_keys
    keyOp,          \* the keys.set call in progress, if any
    keyLog,         \* every keys.set call that has ended: [data, ok]
    keyOut,         \* the last keys.get call: [type, ids, ok, out], and the calls before it
    credStore,      \* datastore: the rows of wa_auth_creds
    loaders,        \* the loadCreds calls: [pc, instance, seen, creds, wrote]
    credLog         \* every committed upsert of wa_auth_creds: [by, row]

ruleVars == <<decideArgs, decideResult>>

pipeVars == <<db_settings, db_rules, runtimeCache, now, authStore, socks, timers,
              logs, calls, sends, closes, decided, env, stats, faults>>

keyVars == <<keyStore, keyOp, keyLog, keyOut>>

credVars == <<credStore, loaders, credLog>>

vars == <<decideArgs, decideResult, db_settings, db_rules, runtimeCache, now,
          authStore, socks, timers, logs, calls, sends, closes, decided, env, stats,
          faults, keyStore, keyOp, keyLog, keyOut, credStore, loaders, credLog>>

(* ------------------------------------------------------------------ *)
(* Bounds and program constants                                       *)
(* ------------------------------------------------------------------ *)

MaxMsgs   == 2      \* inbound messages delivered over a run
MaxBatch  == 2      \* messages in one messages.upsert event
MaxStarts == 2      \* start() calls over a run (the first one and restarts)
MaxTicks  == 1      \* clock steps over a run
MaxFaults == 1      \* datastore / transport failures over a run
MaxCfgMsgs == 3     \* messages delivered over a run of the config-cache scenario
MaxSets   == 2      \* keys.set calls over a run
MaxGets   == 1      \* keys.get calls over a run
MaxLoads  == 3      \* loadCreds calls over a run

ttlMs          == 4000      \* runtimeCache.ttlMs
TickMs         == 4000      \* one clock step
RestartDelayMs == 1500      \* setTimeout(..., 1500)
N8N_TIMEOUT_MS == 15000
LoggedOut      == 401       \* DisconnectReason.loggedOut
ConnectionLost == 408       \* DisconnectReason.connectionLost
NoCode         == 0         \* lastDisconnect?.error ... statusCode undefined
NoStatus       == 0         \* n8n_status: null
StatusOk       == 200
StatusError    == 500

(* ------------------------------------------------------------------ *)
(* Strings                                                            *)
(* ------------------------------------------------------------------ *)

IsSpace(c) == c = " "

RECURSIVE TrimStart(_)
TrimStart(str) ==
    IF str # <<>> /\ IsSpace(Head(str)) THEN TrimStart(Tail(str)) ELSE str

RECURSIVE TrimEnd(_)
TrimEnd(str) ==
    IF str # <<>> /\ IsSpace(str[Len(str)]) THEN TrimEnd(SubSeq(str, 1, Len(str) - 1)) ELSE str

\* String.prototype.trim
Trim(str) == TrimEnd(TrimStart(str))

\* (x || '')
OrEmpty(str) == IF Truthy(str) THEN str ELSE <<>>

(* ------------------------------------------------------------------ *)
(* Constructors                                                      *)
(* ------------------------------------------------------------------ *)

Settings(ifm, mode, gdr, sendTo, prefix) ==
    [ignore_from_me |-> ifm, contacts_mode |-> mode, groups_default_rule |-> gdr,
     reply_send_to |-> sendTo, reply_prefix |-> prefix]

Config(settings, contacts, groups) ==
    [settings |-> settings, entityRules |-> [contacts |-> contacts, groups |-> groups]]

EmptyMap == [k \in {} |-> NoRow]

OneRow(jid, type, rule) == [k \in {jid} |-> Row(jid, type, rule)]

(* ------------------------------------------------------------------ *)
(* Datastore contents and inputs of the pipeline                      *)
(* ------------------------------------------------------------------ *)

\* runtimeCache.cfg === null
NoCfg == [null |-> TRUE]

NoSettings == [null |-> TRUE]

SettingsA == Settings(TRUE, "denylist", "mentionOnly", "sameChat", <<"B", ":">>)

SettingsB == Settings(FALSE, "allowlist", "enabled", "directToSender", <<>>)

PipeSettings == {SettingsA, SettingsB}

PipeRules ==
    [j \in {CarolJid, GroupJid} |->
        IF j = CarolJid THEN Row(CarolJid, "contact", "disabled")
        ELSE Row(GroupJid, "group", "default")]

\* the body of loadRuntimeConfig after both selects succeeded
buildConfig(settings, rules) ==
    Config(settings,
           [j \in {k \in DOMAIN rules : rules[k].type = "contact"} |-> rules[j]],
           [j \in {k \in DOMAIN rules : rules[k].type # "contact"} |-> rules[j]])

\* one element of upsert.messages
WAMessage(remoteJid, fromMe, participant, message) ==
    [key |-> [remoteJid |-> remoteJid, fromMe |-> fromMe, participant |-> participant,
              id |-> 0],
     message |-> message]

TextMsg == Message(Hi, NoVariant, NoVariant, NoVariant, NoVariant)

ImageOnly == Message(Undef, NoVariant, Variant(Undef, FALSE, <<>>), NoVariant, NoVariant)

AliceText == WAMessage(AliceJid, FALSE, NoJid, TextMsg)

PipeMessages ==
    {AliceText,
     WAMessage(CarolJid, FALSE, NoJid, TextMsg),
     WAMessage(AliceJid, TRUE, NoJid, TextMsg),
     WAMessage(AliceJid, FALSE, NoJid, ImageOnly),
     WAMessage(GroupJid, FALSE, AliceJid, Ext(<<BotJid>>)),
     WAMessage(GroupJid, FALSE, NoJid, Ext(<<BotJid>>)),
     WAMessage(GroupJid, FALSE, CarolJid, Ext(<<>>)),
     WAMessage(NewsJid, FALSE, NoJid, TextMsg),
     WAMessage(NoJid, FALSE, NoJid, TextMsg)}

\* the body of a webhook response with a success status
Response(replyText, sendTo, skipReply) ==
    [replyText |-> replyText, sendTo |-> sendTo, skipReply |-> skipReply]

\* {} : also what a body that is not well-formed JSON, or null, becomes
EmptyResponse == Response(Undef, "", FALSE)

Responses ==
    {EmptyResponse,
     Response(<<" ", "o", "k">>, "", TRUE),
     Response(<<" ", " ">>, "", FALSE),
     Response(<<" ", "o", "k", " ">>, "", FALSE),
     Response(<<"o", "k">>, "directToSender", FALSE),
     Response(<<"o", "k">>, "sameChat", FALSE)}

\* the body of a response as received: the text of a JSON value, text that
\* is not JSON, or none read
JsonBody(value) == [kind |-> "json", value |-> value]

NullBody == [kind |-> "null"]

MalformedBody == [kind |-> "text", text |-> <<"o", "k">>]

NoBody == [kind |-> "none"]

Bodies == {JsonBody(r) : r \in Responses} \cup {NullBody, MalformedBody}

\* the events of one flush of the socket's event buffer
EventMap(connection, code, creds, upsertType, messages) ==
    [connection |-> connection, code |-> code, creds |-> creds,
     upsertType |-> upsertType, messages |-> messages]

\* upsert.messages of one event: any message alone, or followed by others
\* of one shape, while fewer than n messages were delivered
RECURSIVE Followed(_, _)
Followed(m, k) == IF k = 0 THEN <<m>> ELSE Followed(m, k - 1) \o <<AliceText>>

Batches(n) ==
    {Followed(m, k) : m \in PipeMessages,
                      k \in 0..((IF n < MaxBatch THEN n ELSE MaxBatch) - 1)}

CloseCodes == {LoggedOut, ConnectionLost, NoCode}

(* ------------------------------------------------------------------ *)
(* Sessions and handlers                                              *)
(* ------------------------------------------------------------------ *)

\* the handler of a socket between two events
IdleHandler ==
    [pc |-> "idle", upsertType |-> "", batch |-> <<>>, i |-> 0,
     now0 |-> 0, settings |-> NoSettings, cfg |-> NoCfg, automated |-> FALSE,
     requestId |-> 0, status |-> NoStatus, destination |-> NoJid, finalText |-> <<>>,
     row |-> NoRow]

\* a start() call that has not returned from its first awaits
NewSock ==
    [phase |-> "loading", conn |-> "none", user |-> NoJid, registered |-> FALSE,
     pairingRequested |-> FALSE, h |-> IdleHandler]

Socks == 1..Len(socks)

\* the message the for loop is at, and what the loop derives from it
CurMsg(h) == h.batch[h.i]

chatJidOf(m) == m.key.remoteJid

\* isGroup ? m.key.participant || undefined : chatJid
senderJidOf(m) == IF isGroupJid(chatJidOf(m)) THEN m.key.participant ELSE chatJidOf(m)

\* mutant: the loop index is not advanced, the message is processed again
Continue_again(h) ==
    [IdleHandler EXCEPT !.pc = "loop", !.upsertType = h.upsertType,
                        !.batch = h.batch, !.i = h.i]

\* `continue`, and the end of the for loop
Continue(h) ==
    IF h.i < Len(h.batch)
    THEN [IdleHandler EXCEPT !.pc = "loop", !.upsertType = h.upsertType,
                             !.batch = h.batch, !.i = h.i + 1]
    ELSE IdleHandler

\* after `await saveCreds()`: the two early returns, then the for loop
AfterCreds(h) ==
    IF h.upsertType = "notify" /\ h.batch # <<>>
    THEN [IdleHandler EXCEPT !.pc = "loop", !.upsertType = h.upsertType,
                             !.batch = h.batch, !.i = 1]
    ELSE IdleHandler

\* the row of an insertLog() call
LogRow(direction, chat, sender, id, text, automated, requestId, status, error) ==
    [direction |-> direction, chat_jid |-> chat, sender_jid |-> sender, message_id |-> id,
     text |-> text, automated |-> automated, n8n_request_id |-> requestId,
     n8n_status |-> status, n8n_error |-> error]

\* the outbound rows of the four places that write one
OutRow(h, chat, text, status, error) ==
    LogRow("outbound", chat, senderJidOf(CurMsg(h)), 0, text, TRUE, h.requestId, status, error)

\* mutant: only automated messages get an inbound row
AfterConfig_logOnlyAutomated(h, cfg, myJid) ==
    LET m == CurMsg(h)
        chatJid == chatJidOf(m)
        text == extractText(m.message)
        automated == shouldAutomate(cfg, chatJid, isGroupJid(chatJid), m.message, myJid)
    IN  IF cfg.settings.ignore_from_me /\ m.key.fromMe THEN Continue(h)
        ELSE IF Truthy(text) /\ automated
             THEN [h EXCEPT !.pc = "logInbound", !.cfg = cfg, !.automated = automated,
                            !.settings = NoSettings]
             ELSE Continue(h)

\* mutant: the account's own messages are handled like any other
AfterConfig_ownToo(h, cfg, myJid) ==
    LET m == CurMsg(h)
        chatJid == chatJidOf(m)
        text == extractText(m.message)
        automated == shouldAutomate(cfg, chatJid, isGroupJid(chatJid), m.message, myJid)
    IN  IF Truthy(text)
        THEN [h EXCEPT !.pc = "logInbound", !.cfg = cfg, !.automated = automated,
                       !.settings = NoSettings]
        ELSE Continue(h)

\* from `if (cfg.settings.ignore_from_me ...` to the first await after it
AfterConfig(h, cfg, myJid) ==
    LET m == CurMsg(h)
        chatJid == chatJidOf(m)
        text == extractText(m.message)
        automated == shouldAutomate(cfg, chatJid, isGroupJid(chatJid), m.message, myJid)
    IN  IF cfg.settings.ignore_from_me /\ m.key.fromMe THEN Continue(h)
        ELSE IF Truthy(text)
             THEN [h EXCEPT !.pc = "logInbound", !.cfg = cfg, !.automated = automated,
                            !.settings = NoSettings]
             ELSE Continue(h)

\* the record of a decision: none when ignore_from_me skips the message
Decision(h, cfg, myJid) ==
    LET m == CurMsg(h)
    IN  IF cfg.settings.ignore_from_me /\ m.key.fromMe THEN <<>>
        ELSE <<[m |-> m, settings |-> cfg.settings,
                automated |-> shouldAutomate(cfg, chatJidOf(m), isGroupJid(chatJidOf(m)),
                                             m.message, myJid)]>>

\* mutant: skipReply is looked at only when there is no reply text
AfterResponse_replyFirst(h, resp, status) ==
    LET m == CurMsg(h)
        chatJid == chatJidOf(m)
        senderJid == senderJidOf(m)
        replyText == Trim(OrEmpty(resp.replyText))
        sendTo == IF resp.sendTo # "" THEN resp.sendTo ELSE h.cfg.settings.reply_send_to
        finalText == OrEmpty(h.cfg.settings.reply_prefix) \o replyText
        destination == IF sendTo = "directToSender" /\ senderJid # NoJid
                       THEN senderJid ELSE chatJid
    IN  IF replyText # <<>>
        THEN [h EXCEPT !.pc = "send", !.status = status,
                       !.destination = destination, !.finalText = finalText]
        ELSE [h EXCEPT !.pc = "logOutbound", !.status = status,
                       !.row = OutRow(h, chatJid, Undef, status,
                                      IF resp.skipReply THEN "skipReply" ELSE "")]

\* mutant: the reply text is not trimmed and the setting reply_send_to is ignored
AfterResponse_raw(h, resp, status) ==
    LET m == CurMsg(h)
        chatJid == chatJidOf(m)
        senderJid == senderJidOf(m)
        replyText == OrEmpty(resp.replyText)
        finalText == OrEmpty(h.cfg.settings.reply_prefix) \o replyText
        destination == IF resp.sendTo = "directToSender" /\ senderJid # NoJid
                       THEN senderJid ELSE chatJid
    IN  IF resp.skipReply
        THEN [h EXCEPT !.pc = "logOutbound", !.status = status,
                       !.row = OutRow(h, chatJid, Undef, status, "skipReply")]
        ELSE IF Trim(replyText) = <<>>
        THEN [h EXCEPT !.pc = "logOutbound", !.status = status,
                       !.row = OutRow(h, chatJid, Undef, status, "")]
        ELSE [h EXCEPT !.pc = "send", !.status = status,
                       !.destination = destination, !.finalText = finalText]

\* from a returned callN8n to the next await
AfterResponse(h, resp, status) ==
    LET m == CurMsg(h)
        chatJid == chatJidOf(m)
        senderJid == senderJidOf(m)
        replyText == Trim(OrEmpty(resp.replyText))
        sendTo == IF resp.sendTo # "" THEN resp.sendTo ELSE h.cfg.settings.reply_send_to
        finalText == OrEmpty(h.cfg.settings.reply_prefix) \o replyText
        destination == IF sendTo = "directToSender" /\ senderJid # NoJid
                       THEN senderJid ELSE chatJid
    IN  IF resp.skipReply
        THEN [h EXCEPT !.pc = "logOutbound", !.status = status,
                       !.row = OutRow(h, chatJid, Undef, status, "skipReply")]
        ELSE IF replyText = <<>>
        THEN [h EXCEPT !.pc = "logOutbound", !.status = status,
                       !.row = OutRow(h, chatJid, Undef, status, "")]
        ELSE [h EXCEPT !.pc = "send", !.status = status,
                       !.destination = destination, !.finalText = finalText]

\* mutant: the `if (!automated) continue` gate is missing
AfterInbound_noGate(h, requestId) ==
    IF ~Truthy(extractText(CurMsg(h).message)) THEN Continue(h)
    ELSE [h EXCEPT !.pc = "fetch", !.requestId = requestId]

\* `if (!automated) continue; if (!text) continue`, then the payload and
\* callN8n up to `await fetch`
AfterInbound(h, requestId) ==
    IF ~h.automated THEN Continue(h)
    ELSE IF ~Truthy(extractText(CurMsg(h).message)) THEN Continue(h)
    ELSE [h EXCEPT !.pc = "fetch", !.requestId = requestId]

\* mutant: the catch block logs to the console only
Caught_noRow(h, error) == Continue(h)

\* the catch block of the per-message try
Caught(h, error) ==
    [h EXCEPT !.pc = "logOutbound", !.destination = NoJid, !.finalText = <<>>,
              !.row = OutRow(h, chatJidOf(CurMsg(h)), Undef, NoStatus, error)]

\* (await res.json().catch(() => ({}))), then `json || {}`
jsonOrEmpty(body) ==
    IF body.kind = "text" THEN EmptyResponse
    ELSE IF body.kind = "null" THEN EmptyResponse
    ELSE body.value

\* mutant: a body that does not parse is a dispatch error
AfterBody_throws(h, body, status) ==
    IF body.kind = "text" THEN Caught(h, "Unexpected token")
    ELSE AfterResponse(h, jsonOrEmpty(body), status)

\* callN8n returns { resp, status }; the handler goes on from line 495
AfterBody(h, body, status) == AfterResponse(h, jsonOrEmpty(body), status)

\* mutant: the comparison of the cache test is the wrong way round
cacheFresh_inverted(cache, t) ==
    cache.cfg # NoCfg /\ t - cache.loadedAt > ttlMs

\* runtimeCache.cfg && now - runtimeCache.loadedAt < runtimeCache.ttlMs
cacheFresh(cache, t) ==
    cache.cfg # NoCfg /\ t - cache.loadedAt < ttlMs

\* mutant: a failed refresh falls back to the snapshot in the cache
afterLoadError_serveStale(h, cache, myJid) ==
    IF cache.cfg # NoCfg THEN AfterConfig(h, cache.cfg, myJid) ELSE Continue(h)

\* mutant: a failed load ends the handler call, the rest of the batch is dropped
afterLoadError_abort(h, cache, myJid) == IdleHandler

\* getRuntimeConfig() rejects: .catch(...) returns null, `if (!cfg) continue`
afterLoadError(h, cache, myJid) == Continue(h)

SetH(s, h) == socks' = [socks EXCEPT ![s].h = h]

At(s, pc) == s \in Socks /\ socks[s].phase = "ready" /\ socks[s].h.pc = pc

CanFail == faults < MaxFaults

Fail == faults' = faults + 1

(* ------------------------------------------------------------------ *)
(* The key store of useSupabaseAuthState                              *)
(* ------------------------------------------------------------------ *)

\* null / undefined as a value of the key map
NullValue == [null |-> TRUE]

\* a key value as the library hands it over: bytes held in a Buffer or a
\* plain Uint8Array, bare or as the field of an object
KeyValue(class, bytes, wrapped) ==
    [null |-> FALSE, class |-> class, bytes |-> bytes, wrapped |-> wrapped, proto |-> FALSE]

\* JSON.parse(JSON.stringify(data, BufferJSON.replacer)): every Buffer and
\* Uint8Array becomes { type: 'Buffer', data: <base64> }
jsonEncode(value) ==
    [json |-> TRUE, type |-> "Buffer", data |-> value.bytes, wrapped |-> value.wrapped]

\* JSON.parse(JSON.stringify(data), BufferJSON.reviver): every
\* { type: 'Buffer', data } becomes a Buffer
jsonDecode(data) ==
    KeyValue("Buffer", data.data, data.wrapped)

\* proto.Message.AppStateSyncKeyData.fromObject(value)
fromObject(value) == [value EXCEPT !.proto = TRUE]

\* the instance of this store, and another one sharing the table
instanceId == "default"

OtherInstance == "other"

KeyRow(instance, type, id, data) ==
    [instance_id |-> instance, type |-> type, id |-> id, data |-> data]

KeyTypes == {"session", "app-state-sync-key"}

ValueA == KeyValue("Buffer", <<1>>, FALSE)

ValueB == KeyValue("Uint8Array", <<2>>, TRUE)

\* one entry of the argument of keys.set: data[type][id] = value
KeyEntry(type, id, value) == [type |-> type, id |-> id, value |-> value]

\* the (type, id) pairs a keys.set argument may hold, in for...in order
KeySlots == <<[type |-> "session", id |-> "1"], [type |-> "session", id |-> "2"],
              [type |-> "app-state-sync-key", id |-> "1"]>>

\* the arguments of keys.set: for each slot no entry, a value, or null
RECURSIVE KeyData(_)
KeyData(k) ==
    IF k > Len(KeySlots) THEN {<<>>}
    ELSE LET rest == KeyData(k + 1)
         IN  rest \cup {<<KeyEntry(KeySlots[k].type, KeySlots[k].id, v)>> \o r :
                           v \in {NullValue, ValueA, ValueB}, r \in rest}

\* the id lists of keys.get
KeyIdLists == {<<>>, <<"1">>, <<"2", "1">>, <<"3", "1", "3">>}

SelectSeq2(seq, keep) ==
    LET F[i \in 0..Len(seq)] ==
            IF i = 0 THEN <<>>
            ELSE IF seq[i].value.null = keep THEN Append(F[i - 1], seq[i]) ELSE F[i - 1]
    IN  F[Len(seq)]

\* keys.set, lines 90-107: the rows to upsert, in emitted order
upsertsOf(data) ==
    LET present == SelectSeq2(data, FALSE)
    IN  [i \in 1..Len(present) |->
            KeyRow(instanceId, present[i].type, present[i].id, jsonEncode(present[i].value))]

\* mutant: the deletes run last to first
deletesOf_reversed(data) ==
    LET absent == SelectSeq2(data, TRUE)
    IN  [i \in 1..Len(absent) |->
            [type |-> absent[Len(absent) + 1 - i].type, id |-> absent[Len(absent) + 1 - i].id]]

\* keys.set, lines 90-107: the keys to delete, in emitted order
deletesOf(data) ==
    LET absent == SelectSeq2(data, TRUE)
    IN  [i \in 1..Len(absent) |-> [type |-> absent[i].type, id |-> absent[i].id]]

SameKey(r, instance, type, id) == r.instance_id = instance /\ r.type = type /\ r.id = id

\* .upsert(upserts, { onConflict: 'instance_id,type,id' })
upsertRows(rows, upserts) ==
    {r \in rows : ~\E i \in DOMAIN upserts :
                      SameKey(r, upserts[i].instance_id, upserts[i].type, upserts[i].id)}
        \cup {upserts[i] : i \in DOMAIN upserts}

\* .delete().eq('instance_id', instanceId).eq('type', d.type).eq('id', d.id)
deleteRows(rows, d) == {r \in rows : ~SameKey(r, instanceId, d.type, d.id)}

\* mutant: only the ids that have a row get an entry
keysGet_foundOnly(rows, type, ids) ==
    LET found == {r \in rows : r.instance_id = instanceId /\ r.type = type
                               /\ \E i \in DOMAIN ids : ids[i] = r.id}
    IN  [id \in {r.id : r \in found} |->
            LET row == CHOOSE r \in found : r.id = id
                value == jsonDecode(row.data)
            IN  IF type = "app-state-sync-key" THEN fromObject(value) ELSE value]

\* keys.get after a successful select, lines 77-87: for each requested id
\* the decoded data of its row, or null
keysGet(rows, type, ids) ==
    LET found == {r \in rows : r.instance_id = instanceId /\ r.type = type
                               /\ \E i \in DOMAIN ids : ids[i] = r.id}
    IN  [id \in {ids[i] : i \in DOMAIN ids} |->
            IF \E r \in found : r.id = id
            THEN LET row == CHOOSE r \in found : r.id = id
                     value == jsonDecode(row.data)
                 IN  IF type = "app-state-sync-key" THEN fromObject(value) ELSE value
            ELSE NullValue]

NoKeyOp == [pc |-> "idle", data |-> <<>>, upserts |-> <<>>, deletes |-> <<>>]

NoKeyOut == [type |-> "", ids |-> <<>>, ok |-> FALSE, out |-> <<>>, gets |-> 0, sets |-> 0]

\* the table holds a row of another instance under a key this one uses
InitKeys ==
    /\ keyStore = {KeyRow(OtherInstance, "session", "1", jsonEncode(ValueB))}
    /\ keyOp = NoKeyOp
    /\ keyLog = <<>>
    /\ keyOut = NoKeyOut

\* keys.set returns, or throws
EndSet(ok) ==
    /\ keyOp' = NoKeyOp
    /\ keyLog' = Append(keyLog, [data |-> keyOp.data, ok |-> ok])

\* where keys.set goes after the upsert: the first delete, or the end
AfterUpserts(op) ==
    IF op.deletes # <<>> THEN [op EXCEPT !.pc = "delete", !.upserts = <<>>]
    ELSE [op EXCEPT !.pc = "done", !.upserts = <<>>]

\* keys.set(data), lines 90-109: the two lists, up to the first await
SetBegin(data) ==
    /\ keyOp.pc = "idle"
    /\ Len(keyLog) < MaxSets
    /\ LET op == [pc |-> "upsert", data |-> data, upserts |-> upsertsOf(data),
                  deletes |-> deletesOf(data)]
       IN  keyOp' = IF op.upserts # <<>> THEN op ELSE AfterUpserts(op)
    /\ UNCHANGED <<keyStore, keyLog, keyOut>>
    /\ UNCHANGED <<ruleVars, pipeVars, credVars>>

\* the upsert of all rows in one request, lines 110-113
SetUpsert ==
    /\ keyOp.pc = "upsert"
    /\ \/ /\ keyStore' = upsertRows(keyStore, keyOp.upserts)
          /\ keyOp' = AfterUpserts(keyOp)
          /\ UNCHANGED <<keyLog, faults>>
       \/ /\ CanFail /\ Fail
          /\ EndSet(FALSE)
          /\ UNCHANGED keyStore
    /\ UNCHANGED keyOut
    /\ UNCHANGED <<ruleVars, credVars>>
    /\ UNCHANGED <<db_settings, db_rules, runtimeCache, now, authStore, socks, timers, logs,
                   calls, sends, closes, decided, env, stats>>

\* one delete of the loop, lines 117-125
SetDelete ==
    /\ keyOp.pc = "delete"
    /\ \/ /\ keyStore' = deleteRows(keyStore, Head(keyOp.deletes))
          /\ keyOp' = IF Len(keyOp.deletes) > 1 THEN [keyOp EXCEPT !.deletes = Tail(@)]
                      ELSE [keyOp EXCEPT !.pc = "done", !.deletes = <<>>]
          /\ UNCHANGED <<keyLog, faults>>
       \/ /\ CanFail /\ Fail
          /\ EndSet(FALSE)
          /\ UNCHANGED keyStore
    /\ UNCHANGED keyOut
    /\ UNCHANGED <<ruleVars, credVars>>
    /\ UNCHANGED <<db_settings, db_rules, runtimeCache, now, authStore, socks, timers, logs,
                   calls, sends, closes, decided, env, stats>>

\* keys.set returns
SetReturns ==
    /\ keyOp.pc = "done"
    /\ EndSet(TRUE)
    /\ UNCHANGED <<keyStore, keyOut>>
    /\ UNCHANGED <<ruleVars, pipeVars, credVars>>

\* keys.get(type, ids), lines 63-88, between two keys.set calls
KeysGet(type, ids) ==
    /\ keyOp.pc = "idle"
    /\ keyOut.gets < MaxGets
    /\ \/ /\ keyOut' = [type |-> type, ids |-> ids, ok |-> TRUE,
                        out |-> IF ids = <<>> THEN <<>> ELSE keysGet(keyStore, type, ids),
                        gets |-> keyOut.gets + 1, sets |-> Len(keyLog)]
          /\ UNCHANGED faults
       \/ /\ ids # <<>> /\ CanFail /\ Fail
          /\ keyOut' = [type |-> type, ids |-> ids, ok |-> FALSE, out |-> <<>>,
                        gets |-> keyOut.gets + 1, sets |-> Len(keyLog)]
    /\ UNCHANGED <<keyStore, keyOp, keyLog>>
    /\ UNCHANGED <<ruleVars, credVars>>
    /\ UNCHANGED <<db_settings, db_rules, runtimeCache, now, authStore, socks, timers, logs,
                   calls, sends, closes, decided, env, stats>>

\* The key store: keys.set and keys.get calls, one after the other.
NextKeys ==
    \/ \E data \in KeyData(1) : SetBegin(data)
    \/ SetUpsert
    \/ SetDelete
    \/ SetReturns
    \/ \E type \in KeyTypes : \E ids \in KeyIdLists : KeysGet(type, ids)

(* ------------------------------------------------------------------ *)
(* loadCreds of useSupabaseAuthState                                  *)
(* ------------------------------------------------------------------ *)

CredsRow(instance, creds) == [instance_id |-> instance, creds |-> creds]

\* maybeSingle() with no matching row: data is null
NoCredsRow == [instance_id |-> "", creds |-> NullValue]

\* initAuthCreds(): new key material on every call
initAuthCreds(n) == KeyValue("Buffer", <<n>>, TRUE)

\* the credentials another instance stored before this run
StoredCreds == initAuthCreds(0)

Instances == {instanceId, OtherInstance}

\* .select('instance_id,creds').eq('instance_id', instance).maybeSingle()
selectCreds(rows, instance) ==
    IF \E r \in rows : r.instance_id = instance
    THEN CHOOSE r \in rows : r.instance_id = instance
    ELSE NoCredsRow

\* mutant: a plain insert, with no conflict target
upsertCreds_insert(rows, row) == rows \cup {row}

\* .upsert({ instance_id, creds }, { onConflict: 'instance_id' })
upsertCreds(rows, row) ==
    {r \in rows : r.instance_id # row.instance_id} \cup {row}

\* a loadCreds call that has not been made
NoLoad == [pc |-> "new", instance |-> "", seen |-> NoCredsRow, creds |-> NullValue,
           wrote |-> FALSE]

\* the number of initAuthCreds() calls so far
CredsMade == Cardinality({l \in DOMAIN loaders : loaders[l].pc \in {"upsert", "done", "threw"}
                                                 /\ loaders[l].seen = NoCredsRow
                                                 /\ ~loaders[l].creds.null})

InitCreds ==
    /\ credStore = {CredsRow(OtherInstance, jsonEncode(StoredCreds))}
    /\ loaders = [l \in 1..MaxLoads |-> NoLoad]
    /\ credLog = <<>>

\* useSupabaseAuthState(supabase, instance): loadCreds() up to its select
LoadBegin(l, instance) ==
    /\ loaders[l].pc = "new"
    /\ \A k \in 1..(l - 1) : loaders[k].pc # "new"
    /\ loaders' = [loaders EXCEPT ![l].pc = "select", ![l].instance = instance]
    /\ UNCHANGED <<credStore, credLog>>
    /\ UNCHANGED <<ruleVars, pipeVars, keyVars>>

\* the select returns, lines 30-47: throw, or `if (!data?.creds)` and
\* initAuthCreds(), or the decoded record
LoadSelect(l) ==
    /\ loaders[l].pc = "select"
    /\ \/ /\ LET data == selectCreds(credStore, loaders[l].instance)
             IN  loaders' = IF data.creds = NullValue
                            THEN [loaders EXCEPT ![l].pc = "upsert", ![l].seen = data,
                                                 ![l].creds = initAuthCreds(CredsMade + 1)]
                            ELSE [loaders EXCEPT ![l].pc = "done", ![l].seen = data,
                                                 ![l].creds = jsonDecode(data.creds)]
          /\ UNCHANGED faults
       \/ /\ CanFail /\ Fail
          /\ loaders' = [loaders EXCEPT ![l].pc = "threw"]
    /\ UNCHANGED <<credStore, credLog>>
    /\ UNCHANGED <<ruleVars, keyVars>>
    /\ UNCHANGED <<db_settings, db_rules, runtimeCache, now, authStore, socks, timers, logs,
                   calls, sends, closes, decided, env, stats>>

\* the upsert of the new record returns, lines 40-44: throw, or return creds
LoadUpsert(l) ==
    /\ loaders[l].pc = "upsert"
    /\ \/ /\ LET row == CredsRow(loaders[l].instance, jsonEncode(loaders[l].creds))
             IN  /\ credStore' = upsertCreds(credStore, row)
                 /\ credLog' = Append(credLog, [by |-> l, row |-> row])
          /\ loaders' = [loaders EXCEPT ![l].pc = "done", ![l].wrote = TRUE]
          /\ UNCHANGED faults
       \/ /\ CanFail /\ Fail
          /\ loaders' = [loaders EXCEPT ![l].pc = "threw"]
          /\ UNCHANGED <<credStore, credLog>>
    /\ UNCHANGED <<ruleVars, keyVars>>
    /\ UNCHANGED <<db_settings, db_rules, runtimeCache, now, authStore, socks, timers, logs,
                   calls, sends, closes, decided, env, stats>>

\* The credential store: loadCreds calls of several callers, interleaved.
NextCreds ==
    \/ \E l \in DOMAIN loaders : \E instance \in Instances : LoadBegin(l, instance)
    \/ \E l \in DOMAIN loaders : LoadSelect(l)
    \/ \E l \in DOMAIN loaders : LoadUpsert(l)

(* ------------------------------------------------------------------ *)
(* start()                                                            *)
(* ------------------------------------------------------------------ *)

InitPipe(settingsSet, phoneSet, registeredSet) ==
    /\ db_settings \in settingsSet
    /\ db_rules = PipeRules
    /\ runtimeCache = [cfg |-> NoCfg, loadedAt |-> 0]
    /\ now = 0
    /\ authStore \in [registered : registeredSet]
    /\ env \in [PAIRING_PHONE_NUMBER : phoneSet]
    /\ socks = <<NewSock>>                  \* `await start()` at the end of the script
    /\ timers = <<>>
    /\ logs = <<>>
    /\ calls = <<>>
    /\ sends = <<>>
    /\ closes = <<>>
    /\ decided = <<>>
    /\ stats = [delivered |-> 0, pairings |-> 0]
    /\ faults = 0
    /\ InitKeys
    /\ InitCreds

InitPipeIdle == InitPipe({SettingsA}, {FALSE}, {TRUE})

\* lines 384-412 up to the first await of the pairing branch, or to ev.process
StartSocket(s) ==
    /\ s \in Socks /\ socks[s].phase = "loading"
    /\ LET pairing == ~authStore.registered /\ env.PAIRING_PHONE_NUMBER
                        /\ ~NewSock.pairingRequested
       IN  socks' = [socks EXCEPT ![s].phase = IF pairing THEN "pairing" ELSE "ready",
                                  ![s].conn = "connecting",
                                  ![s].registered = authStore.registered,
                                  ![s].pairingRequested = pairing]
    /\ UNCHANGED <<ruleVars, keyVars, credVars>>
    /\ UNCHANGED <<db_settings, db_rules, runtimeCache, now, authStore, timers, logs,
                   calls, sends, closes, decided, env, stats, faults>>

\* useMultiFileAuthState / fetchLatestBaileysVersion rejects: start() rejects
StartFails(s) ==
    /\ s \in Socks /\ socks[s].phase = "loading"
    /\ CanFail /\ Fail
    /\ socks' = [socks EXCEPT ![s].phase = "failed"]
    /\ UNCHANGED <<ruleVars, keyVars, credVars>>
    /\ UNCHANGED <<db_settings, db_rules, runtimeCache, now, authStore, timers, logs,
                   calls, sends, closes, decided, env, stats>>

\* sleep(1500); requestPairingCode resolves; ev.process registers the handler
PairingCode(s) ==
    /\ s \in Socks /\ socks[s].phase = "pairing" /\ socks[s].conn # "closed"
    /\ socks' = [socks EXCEPT ![s].phase = "ready"]
    /\ stats' = [stats EXCEPT !.pairings = @ + 1]
    /\ UNCHANGED <<ruleVars, keyVars, credVars>>
    /\ UNCHANGED <<db_settings, db_rules, runtimeCache, now, authStore, timers, logs,
                   calls, sends, closes, decided, env, faults>>

\* the connection closes while start() sleeps: no handler is registered yet,
\* the event is lost and requestPairingCode rejects
PairingFails(s) ==
    /\ s \in Socks /\ socks[s].phase = "pairing"
    /\ CanFail /\ Fail
    /\ socks' = [socks EXCEPT ![s].phase = "failed", ![s].conn = "closed"]
    /\ UNCHANGED <<ruleVars, keyVars, credVars>>
    /\ UNCHANGED <<db_settings, db_rules, runtimeCache, now, authStore, timers, logs,
                   calls, sends, closes, decided, env, stats>>

\* the callback of setTimeout(() => start()..., 1500)
TimerFires ==
    /\ timers # <<>>
    /\ Len(socks) < MaxStarts
    /\ timers' = Tail(timers)
    /\ socks' = Append(socks, NewSock)
    /\ UNCHANGED <<ruleVars, keyVars, credVars>>
    /\ UNCHANGED <<db_settings, db_rules, runtimeCache, now, authStore, logs,
                   calls, sends, closes, decided, env, stats, faults>>

\* time passes
Tick ==
    /\ now < MaxTicks * TickMs
    /\ now' = now + TickMs
    /\ UNCHANGED <<ruleVars, keyVars, credVars>>
    /\ UNCHANGED <<db_settings, db_rules, runtimeCache, authStore, socks, timers, logs,
                   calls, sends, closes, decided, env, stats, faults>>

(* ------------------------------------------------------------------ *)
(* The handler of sock.ev.process                                     *)
(* ------------------------------------------------------------------ *)

\* mutant: a close without a status code is taken for a logout
restartOnClose_needsCode(code) == code # LoggedOut /\ code # NoCode

\* if (code !== DisconnectReason.loggedOut)
restartOnClose(code) == code # LoggedOut

\* what the socket of s can emit next
EventMaps(s) ==
    LET left == MaxMsgs - stats.delivered
        upserts == {EventMap("", NoCode, FALSE, "notify", b) : b \in Batches(left)}
                   \cup {EventMap("", NoCode, FALSE, "append", b) : b \in Batches(IF left > 0 THEN 1 ELSE 0)}
    IN  IF socks[s].conn = "connecting"
        THEN {EventMap("open", NoCode, TRUE, "", <<>>)}
             \cup {EventMap("close", c, FALSE, "", <<>>) : c \in CloseCodes}
        ELSE upserts
             \cup {EventMap("", NoCode, TRUE, "", <<>>)}
             \cup {EventMap("close", c, FALSE, "", <<>>) : c \in CloseCodes}
             \cup {EventMap("close", ConnectionLost, FALSE, "notify", <<AliceText>>) : k \in 1..left}

\* m.key.id of the k-th message of a batch delivered now
Stamp(batch) ==
    [k \in 1..Len(batch) |-> [batch[k] EXCEPT !.key.id = stats.delivered + k]]

\* one call of the handler, up to its first await: the connection.update
\* branch, then `await saveCreds()` or the two early returns
Deliver(s, ev) ==
    /\ At(s, "idle")
    /\ socks[s].conn \in {"connecting", "open"}
    /\ LET closing == ev.connection = "close"
           restart == closing /\ restartOnClose(ev.code)
           h0 == [IdleHandler EXCEPT !.upsertType = ev.upsertType, !.batch = Stamp(ev.messages)]
       IN  /\ timers' = IF restart THEN Append(timers, RestartDelayMs) ELSE timers
           /\ closes' = IF closing THEN Append(closes, [sock |-> s, code |-> ev.code]) ELSE closes
           /\ stats' = [stats EXCEPT !.delivered = @ + Len(ev.messages)]
           /\ socks' = [socks EXCEPT
                 ![s].conn = IF closing THEN "closed"
                             ELSE IF ev.connection = "open" THEN "open" ELSE @,
                 ![s].user = IF ev.connection = "open" THEN BotDeviceJid ELSE @,
                 ![s].registered = IF ev.connection = "open" THEN TRUE ELSE @,
                 ![s].h = IF ev.creds THEN [h0 EXCEPT !.pc = "saveCreds"] ELSE AfterCreds(h0)]
    /\ UNCHANGED <<ruleVars, keyVars, credVars>>
    /\ UNCHANGED <<db_settings, db_rules, runtimeCache, now, authStore, logs,
                   calls, sends, decided, env, faults>>

\* await saveCreds()
SaveCreds(s) ==
    /\ At(s, "saveCreds")
    /\ \/ /\ authStore' = [authStore EXCEPT !.registered = socks[s].registered]
          /\ SetH(s, AfterCreds(socks[s].h))
          /\ UNCHANGED faults
       \/ /\ CanFail /\ Fail             \* the handler call rejects
          /\ SetH(s, IdleHandler)
          /\ UNCHANGED authStore
    /\ UNCHANGED <<ruleVars, keyVars, credVars>>
    /\ UNCHANGED <<db_settings, db_rules, runtimeCache, now, timers, logs,
                   calls, sends, closes, decided, env, stats>>

\* top of the for loop: the two jid checks, then getRuntimeConfig() up to
\* its cache test
LoopTop(s) ==
    /\ At(s, "loop")
    /\ LET h == socks[s].h
           chatJid == chatJidOf(CurMsg(h))
       IN  IF chatJid = NoJid \/ isJidNewsletter(chatJid)
           THEN SetH(s, Continue(h)) /\ UNCHANGED decided
           ELSE IF cacheFresh(runtimeCache, now)
           THEN /\ SetH(s, AfterConfig(h, runtimeCache.cfg, socks[s].user))
                /\ decided' = decided \o Decision(h, runtimeCache.cfg, socks[s].user)
           ELSE /\ SetH(s, [h EXCEPT !.pc = "loadSettings", !.now0 = now])
                /\ UNCHANGED decided
    /\ UNCHANGED <<ruleVars, keyVars, credVars>>
    /\ UNCHANGED <<db_settings, db_rules, runtimeCache, now, authStore, timers, logs,
                   calls, sends, closes, env, stats, faults>>

\* loadRuntimeConfig: the select on app_settings
LoadSettings(s) ==
    /\ At(s, "loadSettings")
    /\ \/ /\ SetH(s, [socks[s].h EXCEPT !.pc = "loadRules", !.settings = db_settings])
          /\ UNCHANGED faults
       \/ /\ CanFail /\ Fail             \* throws; .catch returns null; continue
          /\ SetH(s, afterLoadError(socks[s].h, runtimeCache, socks[s].user))
    /\ UNCHANGED <<ruleVars, keyVars, credVars>>
    /\ UNCHANGED <<db_settings, db_rules, runtimeCache, now, authStore, timers, logs,
                   calls, sends, closes, decided, env, stats>>

\* loadRuntimeConfig: the select on entity_rules; then the cache is set
LoadRules(s) ==
    /\ At(s, "loadRules")
    /\ LET h == socks[s].h
           cfg == buildConfig(h.settings, db_rules)
       IN  \/ /\ runtimeCache' = [cfg |-> cfg, loadedAt |-> h.now0]
              /\ SetH(s, AfterConfig(h, cfg, socks[s].user))
              /\ decided' = decided \o Decision(h, cfg, socks[s].user)
              /\ UNCHANGED faults
           \/ /\ CanFail /\ Fail
              /\ SetH(s, afterLoadError(h, runtimeCache, socks[s].user))
              /\ UNCHANGED <<runtimeCache, decided>>
    /\ UNCHANGED <<ruleVars, keyVars, credVars>>
    /\ UNCHANGED <<db_settings, db_rules, now, authStore, timers, logs,
                   calls, sends, closes, env, stats>>

\* insertLog: the insert resolves with or without an error; neither throws
insertLog(s, row, inserted) ==
    logs' = Append(logs, [sock |-> s, msg |-> CurMsg(socks[s].h).key.id, row |-> row,
                          inserted |-> inserted])

InsertOutcome(s, row, inserted) ==
    /\ insertLog(s, row, inserted)
    /\ IF inserted THEN UNCHANGED faults ELSE CanFail /\ Fail

\* mutant: insertLog throws on a datastore error, the handler call rejects
afterInsert_throws(next, inserted) == IF inserted THEN next ELSE IdleHandler

\* `if (error) logger.warn(...)`: the caller goes on either way
afterInsert(next, inserted) == next

\* the inbound insertLog; then `if (!automated) continue`, the payload and
\* callN8n up to `await fetch`
LogInbound(s) ==
    /\ At(s, "logInbound")
    /\ LET h == socks[s].h
           m == CurMsg(h)
           requestId == Len(calls) + 1          \* crypto.randomUUID()
       IN  \E inserted \in BOOLEAN :
           LET h1 == afterInsert(AfterInbound(h, requestId), inserted) IN
           /\ InsertOutcome(s, LogRow("inbound", chatJidOf(m), senderJidOf(m), m.key.id,
                                      extractText(m.message), h.automated, 0, NoStatus, ""),
                            inserted)
           /\ SetH(s, h1)
           /\ calls' = IF h1.pc = "fetch"
                       THEN Append(calls, [sock |-> s, msg |-> m.key.id,
                                           requestId |-> requestId, state |-> "inflight",
                                           timeout |-> N8N_TIMEOUT_MS, armed |-> TRUE,
                                           outcome |-> "", status |-> NoStatus,
                                           resp |-> EmptyResponse, body |-> NoBody])
                       ELSE calls
    /\ UNCHANGED <<ruleVars, keyVars, credVars>>
    /\ UNCHANGED <<db_settings, db_rules, runtimeCache, now, authStore, timers,
                   sends, closes, decided, env, stats>>

\* the fetch of callN8n ends in `state`; `finally` clears the timer
\* outcome: callN8n "threw" or "returned" {resp, status}
EndCall(requestId, state, outcome, status, resp, body) ==
    calls' = [calls EXCEPT ![requestId].state = state, ![requestId].armed = FALSE,
                           ![requestId].outcome = outcome, ![requestId].status = status,
                           ![requestId].resp = resp, ![requestId].body = body]

\* the timer of callN8n fires during `await fetch`: controller.abort(), fetch
\* rejects, the catch block of the handler runs
FetchTimeout(s) ==
    /\ At(s, "fetch")
    /\ EndCall(socks[s].h.requestId, "aborted", "threw", NoStatus, EmptyResponse, NoBody)
    /\ SetH(s, Caught(socks[s].h, "This operation was aborted"))
    /\ UNCHANGED <<ruleVars, keyVars, credVars>>
    /\ UNCHANGED <<db_settings, db_rules, runtimeCache, now, authStore, timers, logs,
                   sends, closes, decided, env, stats, faults>>

\* fetch rejects by itself (DNS, connection refused, reset)
FetchFails(s) ==
    /\ At(s, "fetch")
    /\ EndCall(socks[s].h.requestId, "failed", "threw", NoStatus, EmptyResponse, NoBody)
    /\ SetH(s, Caught(socks[s].h, "fetch failed"))
    /\ UNCHANGED <<ruleVars, keyVars, credVars>>
    /\ UNCHANGED <<db_settings, db_rules, runtimeCache, now, authStore, timers, logs,
                   sends, closes, decided, env, stats, faults>>

\* fetch resolves with a response: `if (!res.ok)` reads the text and throws,
\* else callN8n goes on to `await res.json()`
FetchResponds(s, status) ==
    /\ At(s, "fetch")
    /\ IF status # StatusOk
       THEN /\ EndCall(socks[s].h.requestId, "completed", "threw", status, EmptyResponse, NoBody)
            /\ SetH(s, Caught(socks[s].h, "n8n responded 500"))
       ELSE /\ SetH(s, [socks[s].h EXCEPT !.pc = "readJson", !.status = status])
            /\ UNCHANGED calls
    /\ UNCHANGED <<ruleVars, keyVars, credVars>>
    /\ UNCHANGED <<db_settings, db_rules, runtimeCache, now, authStore, timers, logs,
                   sends, closes, decided, env, stats, faults>>

\* res.json() resolves with the body, or rejects on a body that is not JSON
\* and .catch turns that into {}; callN8n returns
ReadJson(s, body) ==
    /\ At(s, "readJson")
    /\ EndCall(socks[s].h.requestId, "completed", "returned", socks[s].h.status,
               jsonOrEmpty(body), body)
    /\ SetH(s, AfterBody(socks[s].h, body, socks[s].h.status))
    /\ UNCHANGED <<ruleVars, keyVars, credVars>>
    /\ UNCHANGED <<db_settings, db_rules, runtimeCache, now, authStore, timers, logs,
                   sends, closes, decided, env, stats, faults>>

\* the timer of callN8n fires during `await res.json()`: controller.abort(),
\* the body read rejects, and the same .catch turns that into {}
BodyTimeout(s) ==
    /\ At(s, "readJson")
    /\ EndCall(socks[s].h.requestId, "aborted", "returned", socks[s].h.status, EmptyResponse, NoBody)
    /\ SetH(s, AfterResponse(socks[s].h, EmptyResponse, socks[s].h.status))
    /\ UNCHANGED <<ruleVars, keyVars, credVars>>
    /\ UNCHANGED <<db_settings, db_rules, runtimeCache, now, authStore, timers, logs,
                   sends, closes, decided, env, stats, faults>>

\* await sock.sendMessage(destination, { text: finalText })
Send(s) ==
    /\ At(s, "send")
    /\ LET h == socks[s].h
           sent(ok) == sends' = Append(sends, [sock |-> s, msg |-> CurMsg(h).key.id,
                                               to |-> h.destination, text |-> h.finalText,
                                               ok |-> ok])
       IN  \/ /\ socks[s].conn = "open"
              /\ sent(TRUE)
              /\ SetH(s, [h EXCEPT !.pc = "logOutbound",
                                   !.row = OutRow(h, h.destination, h.finalText, h.status, "")])
              /\ UNCHANGED faults
           \/ /\ socks[s].conn # "open" \/ CanFail
              /\ faults' = IF socks[s].conn = "open" THEN faults + 1 ELSE faults
              /\ sent(FALSE)
              /\ SetH(s, Caught(h, "Connection Closed"))
    /\ UNCHANGED <<ruleVars, keyVars, credVars>>
    /\ UNCHANGED <<db_settings, db_rules, runtimeCache, now, authStore, timers, logs,
                   calls, closes, decided, env, stats>>

\* the outbound insertLog of whichever branch was taken, then the next message
LogOutbound(s) ==
    /\ At(s, "logOutbound")
    /\ \E inserted \in BOOLEAN :
          /\ InsertOutcome(s, socks[s].h.row, inserted)
          /\ SetH(s, afterInsert(Continue(socks[s].h), inserted))
    /\ UNCHANGED <<ruleVars, keyVars, credVars>>
    /\ UNCHANGED <<db_settings, db_rules, runtimeCache, now, authStore, timers,
                   calls, sends, closes, decided, env, stats>>

\* The message pipeline of one session, observed until a restart timer fires.
Next ==
    \/ \E s \in Socks : StartSocket(s)
    \/ \E s \in Socks : StartFails(s)
    \/ \E s \in Socks : PairingCode(s)
    \/ \E s \in Socks : PairingFails(s)
    \/ \E s \in Socks : \E ev \in EventMaps(s) : Deliver(s, ev)
    \/ \E s \in Socks : SaveCreds(s)
    \/ \E s \in Socks : LoopTop(s)
    \/ \E s \in Socks : LoadSettings(s)
    \/ \E s \in Socks : LoadRules(s)
    \/ \E s \in Socks : LogInbound(s)
    \/ \E s \in Socks : FetchTimeout(s)
    \/ \E s \in Socks : FetchFails(s)
    \/ \E s \in Socks : \E status \in {StatusOk, StatusError} : FetchResponds(s, status)
    \/ \E s \in Socks : \E body \in Bodies : ReadJson(s, body)
    \/ \E s \in Socks : BodyTimeout(s)
    \/ \E s \in Socks : Send(s)
    \/ \E s \in Socks : LogOutbound(s)
    \/ Tick

Init ==
    /\ InitPipe({SettingsA}, {TRUE}, {FALSE})
    /\ decideArgs = [cfg |-> Config(SettingsA, EmptyMap, EmptyMap), chatJid |-> AliceJid,
                     msg |-> NoMessage, myJid |-> NoJid]
    /\ decideResult = [done |-> TRUE, value |-> FALSE]

Spec == Init /\ [][Next]_vars

\* what a socket emits in the supervision scenario: connection events, and
\* single messages of one shape, alone or flushed together with a close
SupEventMaps(s) ==
    LET left == MaxMsgs - stats.delivered
    IN  IF socks[s].conn = "connecting"
        THEN {EventMap("open", NoCode, TRUE, "", <<>>)}
             \cup {EventMap("close", c, FALSE, "", <<>>) : c \in CloseCodes}
        ELSE {EventMap("close", c, FALSE, "", <<>>) : c \in CloseCodes}
             \cup {EventMap(c, ConnectionLost, FALSE, "notify", <<AliceText>>) :
                      c \in IF left > 0 THEN {"", "close"} ELSE {}}

SupResponses == {EmptyResponse, Response(<<" ", "o", "k", " ">>, "", FALSE)}

\* The supervisor: sessions, disconnects and restarts.
NextSup ==
    \/ \E s \in Socks : StartSocket(s)
    \/ \E s \in Socks : StartFails(s)
    \/ \E s \in Socks : PairingCode(s)
    \/ \E s \in Socks : PairingFails(s)
    \/ TimerFires
    \/ \E s \in Socks : \E ev \in SupEventMaps(s) : Deliver(s, ev)
    \/ \E s \in Socks : SaveCreds(s)
    \/ \E s \in Socks : LoopTop(s)
    \/ \E s \in Socks : LoadSettings(s)
    \/ \E s \in Socks : LoadRules(s)
    \/ \E s \in Socks : LogInbound(s)
    \/ \E s \in Socks : FetchTimeout(s)
    \/ \E s \in Socks : FetchFails(s)
    \/ \E s \in Socks : \E status \in {StatusOk, StatusError} : FetchResponds(s, status)
    \/ \E s \in Socks : \E resp \in SupResponses : ReadJson(s, JsonBody(resp))
    \/ \E s \in Socks : BodyTimeout(s)
    \/ \E s \in Socks : Send(s)
    \/ \E s \in Socks : LogOutbound(s)

InitSup ==
    /\ InitPipe({SettingsA}, BOOLEAN, {FALSE})
    /\ decideArgs = [cfg |-> Config(SettingsA, EmptyMap, EmptyMap), chatJid |-> AliceJid,
                     msg |-> NoMessage, myJid |-> NoJid]
    /\ decideResult = [done |-> TRUE, value |-> FALSE]

SpecSup == InitSup /\ [][NextSup]_vars

\* The supervisor under the scheduling of the event loop: a timer that was
\* set fires, and the awaits of start() settle (they resolve or reject).
SpecSupFair ==
    /\ InitSup /\ [][NextSup]_vars
    /\ WF_vars(TimerFires)
    /\ WF_vars(\E s \in Socks : StartSocket(s) \/ StartFails(s))
    /\ WF_vars(\E s \in Socks : PairingCode(s) \/ PairingFails(s))

\* the rules after the management surface enabled the group
RulesB ==
    [j \in {CarolJid, GroupJid} |->
        IF j = CarolJid THEN Row(CarolJid, "contact", "disabled")
        ELSE Row(GroupJid, "group", "enabled")]

\* the datastore over a run in which the management surface first updates
\* app_settings and then entity_rules: the states it goes through
DbStates ==
    <<[settings |-> SettingsA, rules |-> PipeRules],
      [settings |-> SettingsB, rules |-> PipeRules],
      [settings |-> SettingsB, rules |-> RulesB]>>

\* one write of the management surface, to one table
WriteConfig ==
    /\ \E k \in 1..(Len(DbStates) - 1) :
          /\ db_settings = DbStates[k].settings /\ db_rules = DbStates[k].rules
          /\ db_settings' = DbStates[k + 1].settings
          /\ db_rules' = DbStates[k + 1].rules
    /\ UNCHANGED <<ruleVars, keyVars, credVars>>
    /\ UNCHANGED <<runtimeCache, now, authStore, socks, timers, logs,
                   calls, sends, closes, decided, env, stats, faults>>

CarolText == WAMessage(CarolJid, FALSE, NoJid, TextMsg)

\* what the socket emits in the config-cache scenario: it opens, then
\* delivers text messages of one contact, one per event
CfgEventMaps(s) ==
    IF socks[s].conn = "connecting"
    THEN {EventMap("open", NoCode, TRUE, "", <<>>)}
    ELSE {EventMap("", NoCode, FALSE, "notify", <<CarolText>>) :
             k \in 1..(MaxCfgMsgs - stats.delivered)}

\* The config cache: one session, messages of a contact that is not
\* automated, the clock, and writes of the management surface.
NextCfg ==
    \/ \E s \in Socks : StartSocket(s)
    \/ \E s \in Socks : \E ev \in CfgEventMaps(s) : Deliver(s, ev)
    \/ \E s \in Socks : SaveCreds(s)
    \/ \E s \in Socks : LoopTop(s)
    \/ \E s \in Socks : LoadSettings(s)
    \/ \E s \in Socks : LoadRules(s)
    \/ \E s \in Socks : LogInbound(s)
    \/ Tick
    \/ WriteConfig

InitCfg ==
    /\ InitPipe({SettingsA}, {FALSE}, {TRUE})
    /\ decideArgs = [cfg |-> Config(SettingsA, EmptyMap, EmptyMap), chatJid |-> AliceJid,
                     msg |-> NoMessage, myJid |-> NoJid]
    /\ decideResult = [done |-> TRUE, value |-> FALSE]

SpecCfg == InitCfg /\ [][NextCfg]_vars

InitKeyStore ==
    /\ InitPipeIdle
    /\ decideArgs = [cfg |-> Config(SettingsA, EmptyMap, EmptyMap), chatJid |-> AliceJid,
                     msg |-> NoMessage, myJid |-> NoJid]
    /\ decideResult = [done |-> TRUE, value |-> FALSE]

SpecKeys == InitKeyStore /\ [][NextKeys]_vars

SpecCreds == InitKeyStore /\ [][NextCreds]_vars

(* ------------------------------------------------------------------ *)
(* Properties of the message pipeline (Spec)                          *)
(* ------------------------------------------------------------------ *)

\* messages are numbered in the order of delivery (m.key.id)
MsgIds == 1..stats.delivered

CallsOf(m) == {i \in DOMAIN calls : calls[i].msg = m}

SendsOf(m) == {i \in DOMAIN sends : sends[i].msg = m}

OutLogsOf(m) == {i \in DOMAIN logs : logs[i].msg = m /\ logs[i].row.direction = "outbound"}

DecisionsOf(m) == {i \in DOMAIN decided : decided[i].m.key.id = m}

\* a handler still has message m ahead of it or in hand
InProgress(m) ==
    \E s \in Socks :
        /\ socks[s].h.pc # "idle"
        /\ \E k \in DOMAIN socks[s].h.batch :
              k >= socks[s].h.i /\ socks[s].h.batch[k].key.id = m

\* a handler awaits sock.sendMessage for message m
Sending(m) ==
    \E s \in Socks : socks[s].h.pc = "send" /\ CurMsg(socks[s].h).key.id = m

\* C2: a message that reached webhook dispatch gets exactly one outbound
\* insertLog call, whatever the outcome (skipReply, empty reply, reply sent,
\* dispatch error, failed send): never two, and one once it is processed.
C2_OneOutboundLog ==
    \A m \in MsgIds :
        CallsOf(m) # {} =>
            /\ Cardinality(OutLogsOf(m)) <= 1
            /\ ~InProgress(m) => Cardinality(OutLogsOf(m)) = 1

\* the outbound send failed, and the one outbound row carries the error
C2_Witness ==
    \E m \in MsgIds :
        /\ ~InProgress(m)
        /\ \E i \in SendsOf(m) : ~sends[i].ok
        /\ \E j \in OutLogsOf(m) : logs[j].row.n8n_error # "" /\ OutLogsOf(m) = {j}

C4_OnlyAutomated ==
    /\ \A d \in DOMAIN decided :
          (~decided[d].automated \/ ~Truthy(extractText(decided[d].m.message))) =>
              /\ CallsOf(decided[d].m.key.id) = {}
              /\ SendsOf(decided[d].m.key.id) = {}
              /\ OutLogsOf(decided[d].m.key.id) = {}
    /\ \A i \in DOMAIN calls :
          \E d \in DecisionsOf(calls[i].msg) : decided[d].automated

\* a message with text and decide() false was processed, and so was one
\* with decide() true and no text; only their inbound row exists
C4_Witness ==
    /\ \E d \in DOMAIN decided :
          /\ ~decided[d].automated /\ Truthy(extractText(decided[d].m.message))
          /\ ~InProgress(decided[d].m.key.id)
          /\ \E j \in DOMAIN logs : logs[j].msg = decided[d].m.key.id
    /\ \E d \in DOMAIN decided :
          /\ decided[d].automated /\ ~Truthy(extractText(decided[d].m.message))
          /\ ~InProgress(decided[d].m.key.id)

\* C8: when the timer of a webhook call fires before the call is over, the
\* call is aborted, the dispatch ends in an error, nothing is sent, and the
\* one outbound row has no status code and an error detail.
C8_TimeoutIsError ==
    \A i \in DOMAIN calls :
        calls[i].state = "aborted" =>
            /\ ~calls[i].armed
            /\ calls[i].outcome = "threw"
            /\ SendsOf(calls[i].msg) = {}
            /\ \A j \in OutLogsOf(calls[i].msg) :
                  logs[j].row.n8n_status = NoStatus /\ logs[j].row.n8n_error # ""
            /\ ~InProgress(calls[i].msg) => Cardinality(OutLogsOf(calls[i].msg)) = 1

\* C9: a returned response with skipReply true sends nothing, even with a
\* replyText, and leaves exactly one outbound row, with the error detail
\* 'skipReply' and the status code of the response.
C9_SkipReply ==
    \A i \in DOMAIN calls :
        (calls[i].outcome = "returned" /\ calls[i].resp.skipReply) =>
            /\ SendsOf(calls[i].msg) = {}
            /\ \A j \in OutLogsOf(calls[i].msg) :
                  /\ logs[j].row.n8n_error = "skipReply"
                  /\ logs[j].row.n8n_status = calls[i].status
            /\ Cardinality(OutLogsOf(calls[i].msg)) <= 1
            /\ ~InProgress(calls[i].msg) => Cardinality(OutLogsOf(calls[i].msg)) = 1

C9_Witness ==
    \E i \in DOMAIN calls :
        /\ calls[i].outcome = "returned" /\ calls[i].resp.skipReply
        /\ Truthy(calls[i].resp.replyText)
        /\ ~InProgress(calls[i].msg)
        /\ \E j \in OutLogsOf(calls[i].msg) : logs[j].inserted

\* the text of a reply: reply_prefix followed by the trimmed replyText
ExpectedText(settings, resp) ==
    (IF settings.reply_prefix = Undef THEN <<>> ELSE settings.reply_prefix)
        \o Trim(resp.replyText)

\* its destination: the sender when the effective sendTo is directToSender
\* and the sender is known, the chat otherwise
ExpectedDestination(settings, resp, m) ==
    LET sendTo == IF resp.sendTo # "" THEN resp.sendTo ELSE settings.reply_send_to
        sender == IF m.key.remoteJid.server = "g.us" THEN m.key.participant
                  ELSE m.key.remoteJid
    IN  IF sendTo = "directToSender" /\ sender # NoJid THEN sender ELSE m.key.remoteJid

HasReply(resp) == ~resp.skipReply /\ Truthy(resp.replyText) /\ Trim(resp.replyText) # <<>>

\* C10: a returned response with a replyText that is not empty after
\* trimming, and no skipReply, leads to exactly one sendMessage call, of
\* reply_prefix + trimmed replyText, to the sender when the effective sendTo
\* is directToSender and the sender is known, to the chat otherwise.
C10_Reply ==
    \A i \in DOMAIN calls :
        (calls[i].outcome = "returned" /\ HasReply(calls[i].resp)) =>
            \E d \in DecisionsOf(calls[i].msg) :
                IF Sending(calls[i].msg) THEN SendsOf(calls[i].msg) = {}
                ELSE \E k \in DOMAIN sends :
                        /\ SendsOf(calls[i].msg) = {k}
                        /\ sends[k].text = ExpectedText(decided[d].settings, calls[i].resp)
                        /\ sends[k].to = ExpectedDestination(decided[d].settings,
                                                             calls[i].resp, decided[d].m)

\* a group message of a known sender, reply_send_to sameChat overridden by the
\* response: the reply went to the sender, trimmed and prefixed
C10_Witness ==
    \E i \in DOMAIN calls : \E k \in SendsOf(calls[i].msg) :
        /\ calls[i].outcome = "returned"
        /\ calls[i].resp.sendTo = "directToSender"
        /\ sends[k].ok
        /\ sends[k].to = AliceJid
        /\ sends[k].text = <<"B", ":", "o", "k">>
        /\ \E d \in DecisionsOf(calls[i].msg) : decided[d].m.key.remoteJid = GroupJid

InLogsOf(m) == {i \in DOMAIN logs : logs[i].msg = m /\ logs[i].row.direction = "inbound"}

\* a handler awaits the inbound insertLog for message m
LoggingInbound(m) ==
    \E s \in Socks : socks[s].h.pc = "logInbound" /\ CurMsg(socks[s].h).key.id = m

\* C17 as stated: every message of a notify upsert that is not the account's
\* own and has text has exactly one inbound row once the loop has passed it.
C17_EveryTextLogged ==
    \A s \in Socks :
        socks[s].h.upsertType = "notify" =>
            \A k \in DOMAIN socks[s].h.batch :
                (/\ k < socks[s].h.i
                 /\ ~socks[s].h.batch[k].key.fromMe
                 /\ Truthy(extractText(socks[s].h.batch[k].message))) =>
                    Cardinality(InLogsOf(socks[s].h.batch[k].key.id)) = 1

\* C17, amended: every message with text for which shouldAutomate() was
\* evaluated gets exactly one inbound insertLog call, with automated equal to
\* that result, before any webhook call and any outbound row for it; a
\* message without text, or one skipped before the decision, gets none.
C17_DecidedTextLogged ==
    /\ \A d \in DOMAIN decided :
          LET m == decided[d].m.key.id
              text == extractText(decided[d].m.message)
          IN  IF Truthy(text)
              THEN /\ Cardinality(InLogsOf(m)) = IF LoggingInbound(m) THEN 0 ELSE 1
                   /\ \A j \in InLogsOf(m) :
                         /\ logs[j].row.automated = decided[d].automated
                         /\ logs[j].row.text = text
                         /\ \A o \in OutLogsOf(m) : j < o
                   /\ CallsOf(m) # {} => InLogsOf(m) # {}
              ELSE InLogsOf(m) = {}
    /\ \A j \in DOMAIN logs : DecisionsOf(logs[j].msg) # {}

\* a message that is not automated has its inbound row with automated false,
\* and an automated one has its row and its webhook call
C17_Witness ==
    /\ \E d \in DOMAIN decided :
          /\ ~decided[d].automated /\ ~InProgress(decided[d].m.key.id)
          /\ \E j \in InLogsOf(decided[d].m.key.id) : ~logs[j].row.automated
    /\ \E d \in DOMAIN decided :
          /\ decided[d].automated /\ CallsOf(decided[d].m.key.id) # {}
          /\ \E j \in InLogsOf(decided[d].m.key.id) : logs[j].row.automated

\* this step is an insertLog() call of session s whose insert failed
InsertFailing(s) ==
    /\ Len(logs') = Len(logs) + 1
    /\ logs'[Len(logs')].sock = s
    /\ ~logs'[Len(logs')].inserted

\* the handler has gone on to the next message, or returned after the last
MovedOn(h, h2) ==
    IF h.i < Len(h.batch)
    THEN h2.pc = "loop" /\ h2.i = h.i + 1 /\ h2.batch = h.batch
    ELSE h2 = IdleHandler

\* C19: a failed insert of a log row raises nothing and changes nothing in
\* what follows: after a failed inbound insert an automated message is
\* dispatched to the webhook and a message that is not automated is passed
\* over; after a failed outbound insert the loop goes on to the next message;
\* the session keeps its handler.
C19_LogFailureDropped ==
    [][\A s \in Socks :
          InsertFailing(s) =>
              /\ socks'[s].phase = "ready" /\ socks'[s].conn = socks[s].conn
              /\ sends' = sends
              /\ IF logs'[Len(logs')].row.direction = "inbound"
                 THEN IF socks[s].h.automated
                      THEN /\ socks'[s].h.pc = "fetch" /\ socks'[s].h.i = socks[s].h.i
                           /\ Len(calls') = Len(calls) + 1
                           /\ calls'[Len(calls')].msg = logs'[Len(logs')].msg
                           /\ calls'[Len(calls')].state = "inflight"
                      ELSE calls' = calls /\ MovedOn(socks[s].h, socks'[s].h)
                 ELSE calls' = calls /\ MovedOn(socks[s].h, socks'[s].h)
      ]_vars

\* the inbound insert of a message failed; the webhook was called all the
\* same, the reply was sent and its outbound row written
C19_Witness ==
    \E m \in MsgIds :
        /\ \E j \in InLogsOf(m) : ~logs[j].inserted
        /\ \E c \in CallsOf(m) : calls[c].outcome = "returned" /\ HasReply(calls[c].resp)
        /\ \E k \in SendsOf(m) : sends[k].ok
        /\ \E o \in OutLogsOf(m) : logs[o].inserted /\ logs[o].row.n8n_status = StatusOk

\* the webhook answered call c with a success status and a body that is
\* not JSON
Malformed(c) ==
    calls[c].outcome = "returned" /\ calls[c].status = StatusOk /\ calls[c].body = MalformedBody

\* C22: a success response whose body is not well-formed is read as an empty
\* response object and callN8n returns: nothing is sent for the message, and
\* it gets one outbound row, with the status of the response, no error
\* detail and no text.
C22_MalformedBodyIsEmpty ==
    \A c \in DOMAIN calls :
        Malformed(c) =>
            LET m == calls[c].msg
            IN  /\ calls[c].resp = EmptyResponse
                /\ SendsOf(m) = {}
                /\ Cardinality(OutLogsOf(m)) = IF InProgress(m) THEN 0 ELSE 1
                /\ \A o \in OutLogsOf(m) :
                       /\ logs[o].row.n8n_status = calls[c].status
                       /\ logs[o].row.n8n_error = ""
                       /\ logs[o].row.text = Undef
                       /\ logs[o].row.n8n_request_id = calls[c].requestId

\* a message whose webhook call got a success status and a body that is not
\* JSON has been processed to the end and has its outbound row
C22_Witness ==
    \E c \in DOMAIN calls :
        /\ Malformed(c) /\ ~InProgress(calls[c].msg)
        /\ \E o \in OutLogsOf(calls[c].msg) :
               logs[o].inserted /\ logs[o].row.n8n_status = StatusOk

\* the handler is past the ignore_from_me test of its current message
PastConfig(h) == h.pc \in {"logInbound", "fetch", "readJson", "send", "logOutbound"}

\* the handler's current message is the account's own and its snapshot
\* says to ignore those
OwnIgnored(h) == h.cfg.settings.ignore_from_me /\ CurMsg(h).key.fromMe

\* the entry this step appends to a history, written by a handler that is
\* past the test on a message that is not an ignored own message
WrittenPastConfig(old, new) ==
    Len(new) > Len(old) =>
        LET h == socks[new[Len(new)].sock].h
        IN  /\ PastConfig(h) /\ ~OwnIgnored(h)
            /\ new[Len(new)].msg = CurMsg(h).key.id

\* C25: with ignore_from_me true in the snapshot in force, a message with
\* fromMe set never gets past the test: no handler works on it after the
\* snapshot is read, and every inbound or outbound row, webhook call and
\* send is written by a handler working on another kind of message.
C25_OwnMessagesIgnored ==
    [][/\ \A s \in Socks : PastConfig(socks[s].h) => ~OwnIgnored(socks[s].h)
       /\ WrittenPastConfig(logs, logs')
       /\ WrittenPastConfig(calls, calls')
       /\ WrittenPastConfig(sends, sends')
      ]_vars

\* a batch whose first message is the account's own: the loop has passed it
\* leaving no row, call or send, and has sent the reply to the second
C25_Witness ==
    \E s \in Socks :
        LET h == socks[s].h
        IN  /\ h.pc = "logOutbound" /\ h.i = 2
            /\ h.batch[1].key.fromMe /\ Truthy(extractText(h.batch[1].message))
            /\ h.cfg.settings.ignore_from_me
            /\ \A j \in DOMAIN logs : logs[j].msg # h.batch[1].key.id
            /\ CallsOf(h.batch[1].key.id) = {} /\ SendsOf(h.batch[1].key.id) = {}
            /\ DecisionsOf(h.batch[1].key.id) = {}
            /\ \E k \in SendsOf(h.batch[2].key.id) : sends[k].ok

(* ------------------------------------------------------------------ *)
(* Properties of the key store (SpecKeys)                             *)
(* ------------------------------------------------------------------ *)

\* the keys.set calls that ended before the last keys.get
SetsBefore == SubSeq(keyLog, 1, keyOut.sets)

\* the entries of the calls for one key, oldest first
EntriesOf(log, type, id) ==
    LET F[i \in 0..Len(log)] == IF i = 0 THEN <<>> ELSE F[i - 1] \o log[i].data
    IN  SelectSeq(F[Len(log)], LAMBDA e : e.type = type /\ e.id = id)

\* what the map holds for a key: the value of its last entry, or null
LastSet(log, type, id) ==
    LET entries == EntriesOf(log, type, id)
    IN  IF entries = <<>> THEN NullValue ELSE entries[Len(entries)].value

\* two values with the same content: both null, or the same bytes in the
\* same structure
SameContent(a, b) ==
    /\ a.null = b.null
    /\ ~a.null => a.bytes = b.bytes /\ a.wrapped = b.wrapped

\* C20: when every keys.set call so far succeeded, keys.get(type, ids)
\* returns an entry for every requested id and for no other, holding the
\* content of the last value set for that id under that type, or null if
\* the id was never set or was last set to an absent value.
C20_TotalMap ==
    (keyOut.ok /\ \A i \in DOMAIN SetsBefore : SetsBefore[i].ok) =>
        /\ DOMAIN keyOut.out = {keyOut.ids[i] : i \in DOMAIN keyOut.ids}
        /\ \A id \in DOMAIN keyOut.out :
               SameContent(keyOut.out[id], LastSet(SetsBefore, keyOut.type, id))

\* a second call replaces the value of one id and deletes another, which
\* a different instance still holds, and a get of both returns the later
\* value and null
C20_Witness ==
    /\ keyOut.ok /\ keyOut.sets = 2 /\ keyOut.type = "session"
    /\ keyOut.ids = <<"2", "1">>
    /\ \A i \in DOMAIN SetsBefore : SetsBefore[i].ok
    /\ EntriesOf(SetsBefore, "session", "2")
           = <<KeyEntry("session", "2", ValueA), KeyEntry("session", "2", ValueB)>>
    /\ EntriesOf(SetsBefore, "session", "1")
           = <<KeyEntry("session", "1", ValueA), KeyEntry("session", "1", NullValue)>>
    /\ keyOut.out["2"] = jsonDecode(jsonEncode(ValueB))
    /\ keyOut.out["1"] = NullValue
    /\ \E r \in keyStore : SameKey(r, OtherInstance, "session", "1")

\* the entries of a keys.set argument with a value, and those without
PresentOf(data) == SelectSeq(data, LAMBDA e : ~e.value.null)

AbsentOf(data) == SelectSeq(data, LAMBDA e : e.value.null)

\* this instance's row of an entry holds the entry's value
Upserted(rows, entry) ==
    \E r \in rows : SameKey(r, instanceId, entry.type, entry.id)
                    /\ r.data = jsonEncode(entry.value)

\* this instance has no row for the entry's key
Deleted(rows, entry) == ~\E r \in rows : SameKey(r, instanceId, entry.type, entry.id)

\* the rows without this instance's row for the entry's key
Without(rows, entry) == {r \in rows : ~SameKey(r, instanceId, entry.type, entry.id)}

\* the number of deletes of the call in progress that are committed
DeletesDone == Len(AbsentOf(keyOp.data)) - Len(keyOp.deletes)

\* the call in progress ends with an error and writes nothing
SetThrows ==
    /\ keyStore' = keyStore
    /\ keyOp' = NoKeyOp
    /\ keyLog' = Append(keyLog, [data |-> keyOp.data, ok |-> FALSE])

\* C24: keys.set commits every upsert of the call in one step, before any
\* delete, then the deletes one per step in emitted order.  A failed upsert
\* step writes nothing, attempts no delete and raises; a failed k-th delete
\* leaves the upserts and the first k-1 deletes committed, attempts no
\* further delete and raises.
C24_SetNotAtomic ==
    [][/\ (keyOp.pc = "upsert" /\ keyOp' # keyOp) =>
              \/ /\ \A i \in DOMAIN PresentOf(keyOp.data) :
                        Upserted(keyStore', PresentOf(keyOp.data)[i])
                 /\ \A r \in keyStore : r \in keyStore' \/ \E i \in DOMAIN PresentOf(keyOp.data) :
                        SameKey(r, instanceId, PresentOf(keyOp.data)[i].type, PresentOf(keyOp.data)[i].id)
                 /\ keyOp'.pc \in {"delete", "done"} /\ keyLog' = keyLog
              \/ SetThrows
       /\ (keyOp.pc = "delete" /\ keyOp' # keyOp) =>
              /\ \A i \in DOMAIN PresentOf(keyOp.data) :
                     Upserted(keyStore, PresentOf(keyOp.data)[i])
              /\ \A i \in 1..DeletesDone : Deleted(keyStore, AbsentOf(keyOp.data)[i])
              /\ \/ /\ keyStore' = Without(keyStore, AbsentOf(keyOp.data)[DeletesDone + 1])
                    /\ keyOp'.pc \in {"delete", "done"} /\ keyLog' = keyLog
                    /\ keyOp'.pc = "done" <=> DeletesDone + 1 = Len(AbsentOf(keyOp.data))
                 \/ SetThrows
      ]_vars

\* a call with one upsert and two deletes failed at the second delete: the
\* upsert and the first delete are in the store, the row of the second
\* delete is still there, and the call ended with an error
C24_Witness ==
    /\ keyOp = NoKeyOp /\ Len(keyLog) = 2 /\ keyLog[1].ok /\ ~keyLog[2].ok
    /\ keyLog[2].data = <<KeyEntry("session", "1", NullValue), KeyEntry("session", "2", NullValue),
                          KeyEntry("app-state-sync-key", "1", ValueA)>>
    /\ Upserted(keyStore, KeyEntry("app-state-sync-key", "1", ValueA))
    /\ Deleted(keyStore, KeyEntry("session", "1", NullValue))
    /\ Upserted(keyStore, KeyEntry("session", "2", ValueB))
    /\ keyLog[1].data = <<KeyEntry("session", "1", ValueA), KeyEntry("session", "2", ValueB)>>

(* ------------------------------------------------------------------ *)
(* Properties of the credential store (SpecCreds)                     *)
(* ------------------------------------------------------------------ *)

\* the loadCreds call found no record for its instance
FirstLoad(l) == loaders[l].seen = NoCredsRow

\* the committed upserts of call l
WritesBy(l) == {i \in DOMAIN credLog : credLog[i].by = l}

\* the committed upserts for an instance, oldest first
WritesFor(instance) == SelectSeq(credLog, LAMBDA w : w.row.instance_id = instance)

\* the rows of an instance
RowsFor(rows, instance) == {r \in rows : r.instance_id = instance}

\* a row holding the encoding of a credential record
WellFormedRow(r) == ~jsonDecode(r.creds).null /\ r.creds = jsonEncode(jsonDecode(r.creds))

\* C21: a loadCreds call that finds no record returns new credentials after
\* one committed upsert of their encoding; a call that finds a record returns
\* its decoding and writes nothing.  However the calls interleave, an
\* instance has at most one row, well-formed, equal to the last one written
\* for it, or to the one it started with if none was written.
C21_LoadCreds ==
    /\ \A l \in DOMAIN loaders :
          loaders[l].pc = "done" =>
              IF FirstLoad(l)
              THEN /\ loaders[l].wrote /\ ~loaders[l].creds.null
                   /\ loaders[l].creds # StoredCreds
                   /\ \A k \in DOMAIN loaders :
                         (k # l /\ FirstLoad(k) /\ ~loaders[k].creds.null) =>
                             loaders[k].creds # loaders[l].creds
                   /\ \E i \in WritesBy(l) :
                         /\ WritesBy(l) = {i}
                         /\ credLog[i].row = CredsRow(loaders[l].instance,
                                                      jsonEncode(loaders[l].creds))
              ELSE /\ ~loaders[l].wrote /\ WritesBy(l) = {}
                   /\ loaders[l].seen.instance_id = loaders[l].instance
                   /\ loaders[l].seen.creds = jsonEncode(loaders[l].creds)
    /\ \A instance \in Instances :
          LET rows == RowsFor(credStore, instance)
              writes == WritesFor(instance)
          IN  /\ Cardinality(rows) <= 1
              /\ \A r \in rows : WellFormedRow(r)
              /\ IF writes = <<>>
                 THEN rows = RowsFor({CredsRow(OtherInstance, jsonEncode(StoredCreds))}, instance)
                 ELSE rows = {writes[Len(writes)].row}

\* two first loads of one instance interleaved: both found no record, both
\* wrote and returned different credentials, the row is the one written
\* last, and a third load returned that one without writing
C21_Witness ==
    \E a, b, c \in DOMAIN loaders :
        /\ a # b
        /\ \A l \in {a, b, c} : loaders[l].pc = "done" /\ loaders[l].instance = instanceId
        /\ FirstLoad(a) /\ FirstLoad(b) /\ loaders[a].wrote /\ loaders[b].wrote
        /\ loaders[a].creds # loaders[b].creds
        /\ Len(credLog) = 2 /\ credLog[1].by = a /\ credLog[2].by = b
        /\ RowsFor(credStore, instanceId) = {CredsRow(instanceId, jsonEncode(loaders[b].creds))}
        /\ ~FirstLoad(c) /\ ~loaders[c].wrote /\ loaders[c].creds = loaders[b].creds

(* ------------------------------------------------------------------ *)
(* Properties of the supervisor (SpecSup)                             *)
(* ------------------------------------------------------------------ *)

\* C1: every handled close with the logged-out code schedules nothing;
\* every other handled close, one without a code included, schedules exactly
\* one start() after the fixed delay; nothing else schedules a restart, and a
\* scheduled restart is one start() call.
C1_RestartPerClose ==
    [][ /\ Len(closes') = Len(closes) + 1 =>
              IF closes'[Len(closes')].code = LoggedOut
              THEN timers' = timers
              ELSE timers' = Append(timers, RestartDelayMs)
        /\ Len(closes') = Len(closes) =>
              \/ timers' = timers /\ Len(socks') = Len(socks)
              \/ timers # <<>> /\ timers' = Tail(timers) /\ Len(socks') = Len(socks) + 1
      ]_vars

\* a close without a code was followed by a restart, whose session was then
\* logged out: the supervisor is at rest
C1_Witness ==
    /\ Len(closes) = 2
    /\ closes[1].code = NoCode /\ closes[1].sock = 1
    /\ closes[2].code = LoggedOut /\ closes[2].sock = 2
    /\ timers = <<>>

\* C11: over the whole run, restarts included, at most one pairing code is
\* requested, and only with unregistered credentials and a configured
\* pairing number.
C11_PairingOnce ==
    /\ stats.pairings <= 1
    /\ stats.pairings = 1 => env.PAIRING_PHONE_NUMBER

\* a later session has registered its handler
Superseded(s) == \E t \in Socks : t > s /\ socks[t].phase = "ready"

\* C12: once a restarted session has registered its handler, the handler of
\* an earlier session makes no further webhook call, send or log write.
C12_OldPipelineDiscarded ==
    [][ /\ Len(calls') > Len(calls) => ~Superseded(calls'[Len(calls')].sock)
        /\ Len(sends') > Len(sends) => ~Superseded(sends'[Len(sends')].sock)
        /\ Len(logs') > Len(logs) => ~Superseded(logs'[Len(logs')].sock)
      ]_vars

\* session s closed for a reason other than logged out
ClosedTransient(s) ==
    \E k \in DOMAIN closes : closes[k].sock = s /\ closes[k].code # LoggedOut

\* C13: after a close of a session for a reason other than logged out, a
\* later session with a registered handler is eventually established, also
\* when a restart attempt fails (sessions below the bound on start() calls).
C13_EventuallyRestarted ==
    \A s \in 1..(MaxStarts - 1) : ClosedTransient(s) ~> Superseded(s)

\* the webhook calls that have not returned or thrown
InFlight == {c \in DOMAIN calls : calls[c].state = "inflight"}

\* the sessions whose handler is working on a batch
Busy == {s \in Socks : socks[s].h.pc \notin {"idle", "saveCreds"}}

\* the message ids in a history never go back
InArrivalOrder(hist) == \A i, j \in DOMAIN hist : i < j => hist[i].msg <= hist[j].msg

\* C23: messages are processed one at a time in arrival order: at most one
\* handler is working on a message, at most one webhook call is in flight,
\* and decisions, rows, calls and sends follow the order of arrival.
C23_OneAtATime ==
    /\ Cardinality(Busy) <= 1
    /\ Cardinality(InFlight) <= 1
    /\ InArrivalOrder(logs) /\ InArrivalOrder(calls) /\ InArrivalOrder(sends)
    /\ \A i, j \in DOMAIN decided : i < j => decided[i].m.key.id < decided[j].m.key.id

(* ------------------------------------------------------------------ *)
(* Properties of the config cache (SpecCfg)                           *)
(* ------------------------------------------------------------------ *)

\* a snapshot is cached and now - loadedAt < ttl
WithinTtl == runtimeCache.cfg # NoCfg /\ now - runtimeCache.loadedAt < ttlMs

\* this step is the cache test of a getRuntimeConfig() call of session s
Getting(s) ==
    /\ socks[s].h.pc = "loop"
    /\ socks'[s].h # socks[s].h
    /\ chatJidOf(CurMsg(socks[s].h)) # NoJid
    /\ chatJidOf(CurMsg(socks[s].h)).server # "newsletter"

\* this step makes getRuntimeConfig() of session s return a snapshot
Returning(s) == socks[s].h.pc # "logInbound" /\ socks'[s].h.pc = "logInbound"

\* this step is a datastore read of loadRuntimeConfig that fails
LoadFailing(s) ==
    socks[s].h.pc \in {"loadSettings", "loadRules"} /\ faults' = faults + 1

\* C14: a getRuntimeConfig() call within the TTL window returns the cached
\* snapshot, starts no datastore read and leaves the cache as it is, so two
\* such calls return the identical snapshot; a reload starts only in a call
\* that finds no snapshot cached or now - loadedAt >= ttl.
C14_CacheWithinTtl ==
    [][\A s \in Socks :
          /\ (Getting(s) /\ WithinTtl) =>
                /\ Returning(s) /\ socks'[s].h.cfg = runtimeCache.cfg
                /\ runtimeCache' = runtimeCache
          /\ (socks[s].h.pc # "loadSettings" /\ socks'[s].h.pc = "loadSettings") =>
                Getting(s) /\ ~WithinTtl
      ]_vars

\* the first message loaded the snapshot, the second was served from the
\* cache, and after the TTL the third starts a reload
C14_Witness ==
    /\ Len(decided) = 2 /\ Len(logs) = 2
    /\ runtimeCache.cfg # NoCfg /\ now - runtimeCache.loadedAt = ttlMs
    /\ faults = 0
    /\ \E s \in Socks : socks[s].h.pc = "loadSettings" /\ CurMsg(socks[s].h).key.id = 3

\* C15: with no snapshot or an expired one in the cache, a failing datastore
\* read makes the call fail: no snapshot is returned for that message, the
\* cache and loadedAt stay as they were, and a later call that finds the
\* cache expired starts a reload again. A call returns the cached snapshot
\* only within the TTL, and otherwise the one it has just loaded.
C15_RefreshFailure ==
    [][\A s \in Socks :
          /\ LoadFailing(s) =>
                /\ runtimeCache' = runtimeCache
                /\ ~Returning(s)
                /\ socks'[s].h.pc \in {"loop", "idle"}
                /\ decided' = decided /\ logs' = logs
          /\ Returning(s) =>
                \/ /\ socks[s].h.pc = "loop" /\ WithinTtl
                   /\ socks'[s].h.cfg = runtimeCache.cfg
                \/ /\ socks[s].h.pc = "loadRules" /\ faults' = faults
                   /\ socks'[s].h.cfg = buildConfig(socks[s].h.settings, db_rules)
                   /\ runtimeCache' = [cfg |-> socks'[s].h.cfg, loadedAt |-> socks[s].h.now0]
          /\ (Getting(s) /\ ~WithinTtl) => socks'[s].h.pc = "loadSettings"
      ]_vars

\* the first message loaded the snapshot; after the TTL the refresh for the
\* second failed and left the cache alone; the third starts a reload
C15_Witness ==
    /\ Len(decided) = 1 /\ Len(logs) = 1 /\ logs[1].inserted
    /\ authStore.registered
    /\ faults = 1
    /\ runtimeCache.cfg # NoCfg /\ runtimeCache.loadedAt = 0 /\ now = ttlMs
    /\ \E s \in Socks : socks[s].h.pc = "loadSettings" /\ CurMsg(socks[s].h).key.id = 3

\* C16: the cached snapshot is the configuration of one datastore state: its
\* settings and its rules were both current at one and the same time.
C16_SnapshotConsistent ==
    runtimeCache.cfg # NoCfg =>
        \E k \in DOMAIN DbStates :
            runtimeCache.cfg = buildConfig(DbStates[k].settings, DbStates[k].rules)

\* C18 (under Spec): a failing config load for a message writes no row, makes
\* no webhook call and no send for it, then or later; the loop goes on to the
\* next message of the batch, or the handler returns normally after the last
\* one; the session keeps its handler; and the next cache test of a call
\* that finds no valid snapshot starts a load of its own.
C18_ConfigLoadFailure ==
    [][\A s \in Socks :
          /\ LoadFailing(s) =>
                /\ logs' = logs /\ calls' = calls /\ sends' = sends /\ decided' = decided
                /\ socks'[s].phase = "ready" /\ socks'[s].conn = socks[s].conn
                /\ IF socks[s].h.i < Len(socks[s].h.batch)
                   THEN /\ socks'[s].h.pc = "loop"
                        /\ socks'[s].h.i = socks[s].h.i + 1
                        /\ socks'[s].h.batch = socks[s].h.batch
                   ELSE socks'[s].h = IdleHandler
          /\ (Getting(s) /\ ~WithinTtl) => socks'[s].h.pc = "loadSettings"
          /\ \A j \in DOMAIN logs' :
                \E d \in DOMAIN decided' : decided'[d].m.key.id = logs'[j].msg
          /\ \A j \in DOMAIN calls' :
                \E d \in DOMAIN decided' : decided'[d].m.key.id = calls'[j].msg
          /\ \A j \in DOMAIN sends' :
                \E d \in DOMAIN decided' : decided'[d].m.key.id = sends'[j].msg
      ]_vars

\* the config load for the first message of a batch failed: nothing was
\* written for it, and the second message loaded the config and was
\* dispatched
C18_Witness ==
    \E s \in Socks :
        /\ socks[s].h.pc = "fetch" /\ socks[s].h.i = 2
        /\ socks[s].h.batch[1].key.remoteJid = CarolJid
        /\ DecisionsOf(1) = {} /\ DecisionsOf(2) # {}
        /\ faults = 1 /\ authStore.registered
        /\ \A j \in DOMAIN logs : logs[j].inserted /\ logs[j].msg = 2

(* ------------------------------------------------------------------ *)
(* The decision function on its own                                   *)
(* ------------------------------------------------------------------ *)

ContactsModes == {"allowlist", "denylist"}

\* the values of the column, and one value outside the enum
GroupDefaultRules == {"disabled", "enabled", "mentionOnly", "other"}

AutomationRules == {"default", "enabled", "disabled", "mentionOnly"}

RuleSettings ==
    {Settings(TRUE, m, g, "sameChat", <<>>) : m \in ContactsModes, g \in GroupDefaultRules}

RuleContacts ==
    {EmptyMap, OneRow(CarolJid, "contact", "enabled")}
        \cup {OneRow(AliceJid, "contact", r) : r \in AutomationRules}

RuleGroups ==
    {EmptyMap} \cup {OneRow(GroupJid, "group", r) : r \in AutomationRules \cup {"other"}}

RuleConfigs == {Config(s, c, g) : s \in RuleSettings, c \in RuleContacts, g \in RuleGroups}

RuleMessages ==
    {NoMessage,
     Message(Undef, NoVariant, NoVariant, NoVariant, NoVariant),
     Message(Hi, NoVariant, NoVariant, NoVariant, NoVariant),
     Message(Undef, Variant(Hi, FALSE, <<>>), NoVariant, NoVariant, NoVariant),
     Ext(<<>>),
     Ext(<<BotJid>>),
     Ext(<<AliceJid>>),
     Ext(<<AliceJid, BotJid>>),
     Ext(<<Jid("bot", 0, "c.us")>>),
     Ext(<<Jid("bot", 2, "s.whatsapp.net")>>),
     Message(Undef, NoVariant, Variant(Hi, TRUE, <<BotJid>>), NoVariant, NoVariant),
     Message(Undef, NoVariant, NoVariant, Variant(Undef, TRUE, <<BotJid>>), NoVariant),
     Message(Undef, NoVariant, NoVariant, NoVariant, Variant(Hi, TRUE, <<CarolJid, BotJid>>)),
     Message(Undef, Variant(Hi, TRUE, <<>>), Variant(Hi, TRUE, <<BotJid>>), NoVariant, NoVariant),
     Message(Undef, Variant(Hi, FALSE, <<>>), Variant(Hi, TRUE, <<BotJid>>), NoVariant, NoVariant)}

RuleChats == {AliceJid, CarolJid, GroupJid}

RuleSelves == {NoJid, BotDeviceJid, BotJid}

InitRule ==
    /\ decideArgs \in [cfg : RuleConfigs, chatJid : RuleChats, msg : RuleMessages, myJid : RuleSelves]
    /\ decideResult = [done |-> FALSE, value |-> FALSE]
    /\ InitPipeIdle

\* const automated = shouldAutomate(cfg, chatJid, isGroup, m.message, sock.user?.id)
Decide ==
    /\ ~decideResult.done
    /\ decideResult' =
          [done  |-> TRUE,
           value |-> shouldAutomate(decideArgs.cfg, decideArgs.chatJid,
                                    isGroupJid(decideArgs.chatJid), decideArgs.msg,
                                    decideArgs.myJid)]
    /\ UNCHANGED decideArgs
    /\ UNCHANGED <<pipeVars, keyVars, credVars>>

NextRule == Decide

SpecRule == InitRule /\ [][NextRule]_vars

(* ------------------------------------------------------------------ *)
(* Properties of the decision function (SpecRule)                     *)
(* ------------------------------------------------------------------ *)

\* the override rule stored for the chat, "absent" when there is no row
StoredRule(map, chatJid) == IF chatJid \in DOMAIN map THEN map[chatJid].rule ELSE "absent"

DecidedDirect == decideResult.done /\ ~isGroupJid(decideArgs.chatJid)

DecidedGroup == decideResult.done /\ isGroupJid(decideArgs.chatJid)

\* C5: on a direct chat decide() is true exactly when (allowlist and the
\* chat's override is exactly enabled) or (denylist and the override is not
\* exactly disabled), whatever the message is.
C5_DirectDecision ==
    DecidedDirect =>
        LET mode == decideArgs.cfg.settings.contacts_mode
            rule == StoredRule(decideArgs.cfg.entityRules.contacts, decideArgs.chatJid)
        IN  decideResult.value <=>
                \/ mode = "allowlist" /\ rule = "enabled"
                \/ mode = "denylist" /\ rule # "disabled"

\* a mentionOnly override on a direct chat in allowlist mode: not automated,
\* although the message mentions the bridge
C5_Witness ==
    /\ DecidedDirect
    /\ decideArgs.cfg.settings.contacts_mode = "allowlist"
    /\ StoredRule(decideArgs.cfg.entityRules.contacts, decideArgs.chatJid) = "mentionOnly"
    /\ decideArgs.msg = Ext(<<BotJid>>)
    /\ decideArgs.myJid = BotDeviceJid
    /\ ~decideResult.value

\* the rule in force for a group chat: its override unless absent or default
EffectiveGroupRule ==
    LET rule == StoredRule(decideArgs.cfg.entityRules.groups, decideArgs.chatJid)
    IN  IF rule \in {"absent", "default"}
        THEN decideArgs.cfg.settings.groups_default_rule
        ELSE rule

\* the result of the mention test: the normalized own JID is known and is
\* one of the normalized mentioned JIDs
MentionsSelf ==
    /\ decideArgs.myJid # NoJid
    /\ decideArgs.msg.present
    /\ jidNormalizedUser(decideArgs.myJid) \in
          {jidNormalizedUser(mentionedOf(decideArgs.msg)[i]) :
              i \in 1..Len(mentionedOf(decideArgs.msg))}

\* C6: on a group chat the effective rule is the override when present and
\* not default, else groups_default_rule; decide() is false for disabled,
\* true for enabled, the mention test for mentionOnly, false for anything else.
C6_GroupDecision ==
    DecidedGroup =>
        decideResult.value =
            CASE EffectiveGroupRule = "disabled"    -> FALSE
              [] EffectiveGroupRule = "enabled"     -> TRUE
              [] EffectiveGroupRule = "mentionOnly" -> MentionsSelf
              [] OTHER                              -> FALSE

\* an enabled override beats a disabled default
C6_Witness ==
    /\ DecidedGroup
    /\ decideArgs.cfg.settings.groups_default_rule = "disabled"
    /\ StoredRule(decideArgs.cfg.entityRules.groups, decideArgs.chatJid) = "enabled"
    /\ decideResult.value

\* C7: under an effective rule of mentionOnly decide() is true iff the
\* normalized own JID is in the normalized mention list; an empty list or an
\* unknown own JID gives false.
C7_MentionOnly ==
    (DecidedGroup /\ EffectiveGroupRule = "mentionOnly") =>
        /\ decideResult.value <=> MentionsSelf
        /\ (mentionedOf(decideArgs.msg) = <<>> \/ decideArgs.myJid = NoJid)
              => ~decideResult.value

\* the socket reports bot:1@..., the message mentions bot@...: automated
C7_Witness ==
    /\ DecidedGroup
    /\ EffectiveGroupRule = "mentionOnly"
    /\ decideArgs.myJid = BotDeviceJid
    /\ decideArgs.msg = Ext(<<AliceJid, BotJid>>)
    /\ decideResult.value

====
